---------------------------- MODULE Spec2Model ----------------------------
(***************************************************************************)
(* A model of the cityscale computation core: the emissions engine         *)
(* (modules/emissions_engine.py), the scenario model and the forecast      *)
(* orchestrator (modules/scenario.py), the urban-form calculator           *)
(* (modules/urban_form.py), the numeric helpers (modules/utils.py), the    *)
(* pre-flight validation (modules/io_handlers.py), the run store           *)
(* (modules/storage.py) and the report export (modules/report_export.py)   *)
(* as app.py uses them, and the session state app.py keeps between script  *)
(* runs.                                                                   *)
(*                                                                         *)
(* Numbers.  The program computes on IEEE doubles.  The model computes on  *)
(* exact rationals <<n, d>> (d > 0, lowest terms) extended with the three  *)
(* special doubles the program's own arithmetic can produce or receive:    *)
(* NaN = <<0, 0>> (a null cell of a table, 0/0), +inf = <<1, 0>> and       *)
(* -inf = <<-1, 0>> (x/0 in a pandas column).  Rounding of doubles is not  *)
(* modelled.                                                               *)
(*                                                                         *)
(* Tables.  A pandas DataFrame is a mutable object; the model keeps the    *)
(* objects in a heap (a sequence of tables, a reference is an index) so    *)
(* that copy() and in-place .loc writes are distinguishable.               *)
(***************************************************************************)
EXTENDS Integers, Sequences, FiniteSets, TLC

VARIABLES
    heap,      \* the caller's DataFrames: heap[1] activity_df, heap[2] factor_df
    pc,        \* "ready" | "computed" | "loop" | "done" | "validated" | "stopped"
    call,      \* the call in progress or last made: [op |-> ..., arguments]
    result,    \* the outcome of the last call: [status |-> "none"|"ok"|"raise"|"stop", ...]
    records,   \* forecast_scenarios: the list `records` built by the loop
    cell,      \* forecast_scenarios: the number of (scenario, year) cells done
    run_dir,   \* the runs directory on disk: [exists, files: name -> content]
    clock,     \* the UTC wall clock, in seconds of the day 2025-01-01
    saved,     \* the save_run calls made so far: [path, payload] in call order
    session_state  \* st.session_state of one browser session: key -> value

storeVars == <<run_dir, clock, saved>>

vars == <<heap, pc, call, result, records, cell, run_dir, clock, saved, session_state>>

---------------------------------------------------------------------------
(* Double arithmetic on extended rationals                                 *)

NaN == <<0, 0>>
PosInf == <<1, 0>>
NegInf == <<-1, 0>>

Abs(i) == IF i < 0 THEN -i ELSE i

RECURSIVE GCD(_, _)
GCD(a, b) == IF b = 0 THEN a ELSE GCD(b, a % b)

\* The rational n/d in lowest terms, d # 0.
Q(n, d) ==
    LET g == GCD(Abs(n), Abs(d))
        s == IF d < 0 THEN -1 ELSE 1
    IN  <<(s * n) \div g, (s * d) \div g>>

Z(i) == <<i, 1>>

IsNaN(x) == x = NaN
IsFinite(x) == x[2] # 0
Sign(x) == IF x[1] > 0 THEN 1 ELSE IF x[1] < 0 THEN -1 ELSE 0

RNeg(x) == <<-x[1], x[2]>>

\* x + y on doubles
RAdd(x, y) ==
    IF IsNaN(x) \/ IsNaN(y) THEN NaN
    ELSE IF ~IsFinite(x) /\ ~IsFinite(y) THEN (IF x = y THEN x ELSE NaN)
    ELSE IF ~IsFinite(x) THEN x
    ELSE IF ~IsFinite(y) THEN y
    ELSE Q(x[1] * y[2] + y[1] * x[2], x[2] * y[2])

RSub(x, y) == RAdd(x, RNeg(y))

\* x * y on doubles
RMul(x, y) ==
    IF IsNaN(x) \/ IsNaN(y) THEN NaN
    ELSE IF ~IsFinite(x) \/ ~IsFinite(y)
         THEN (IF Sign(x) * Sign(y) = 0 THEN NaN ELSE <<Sign(x) * Sign(y), 0>>)
    ELSE Q(x[1] * y[1], x[2] * y[2])

\* x / y as numpy divides two float columns: a zero divisor gives inf or NaN
RDiv(x, y) ==
    IF IsNaN(x) \/ IsNaN(y) THEN NaN
    ELSE IF ~IsFinite(x) /\ ~IsFinite(y) THEN NaN
    ELSE IF ~IsFinite(x) THEN <<Sign(x) * (IF Sign(y) < 0 THEN -1 ELSE 1), 0>>
    ELSE IF ~IsFinite(y) THEN Z(0)
    ELSE IF y[1] = 0 THEN (IF Sign(x) = 0 THEN NaN ELSE <<Sign(x), 0>>)
    ELSE Q(x[1] * y[2], x[2] * y[1])

\* x < y on doubles: every comparison with NaN is false
RLt(x, y) ==
    IF IsNaN(x) \/ IsNaN(y) THEN FALSE
    ELSE IF ~IsFinite(x) \/ ~IsFinite(y)
         THEN (IF x = y THEN FALSE
               ELSE IF x = NegInf \/ y = PosInf THEN TRUE ELSE FALSE)
    ELSE x[1] * y[2] < y[1] * x[2]

RGt(x, y) == RLt(y, x)

\* x == y on doubles
REq(x, y) == ~IsNaN(x) /\ ~IsNaN(y) /\ x = y

RLe(x, y) == RLt(x, y) \/ REq(x, y)

\* x ** t for an int t >= 0 (Python: anything ** 0 is 1.0)
RECURSIVE RPow(_, _)
RPow(x, t) == IF t = 0 THEN Z(1) ELSE RMul(x, RPow(x, t - 1))

---------------------------------------------------------------------------
(* modules/utils.py                                                        *)

\* Python's two-argument min and max: the first argument unless the second
\* compares strictly smaller (larger); with a NaN the comparison is false.
PyMin(a, b) == IF RLt(b, a) THEN b ELSE a
PyMax(a, b) == IF RGt(b, a) THEN b ELSE a

GWP_CO2 == Z(1)
GWP_CH4 == Z(28)
GWP_N2O == Z(265)
DEFAULT_GWP == [CO2 |-> GWP_CO2, CH4 |-> GWP_CH4, N2O |-> GWP_N2O]

\* clamp without its lower bound
clamp_upper_only(value, minimum, maximum) == PyMin(maximum, value)

clamp(value, minimum, maximum) == PyMax(minimum, PyMin(maximum, value))

clamp01(value) == clamp(value, Z(0), Z(1))

\* safe_divide without its guard
safe_divide_unguarded(numerator, denominator) == RDiv(numerator, denominator)

safe_divide(numerator, denominator) ==
    IF REq(denominator, Z(0)) THEN Z(0) ELSE RDiv(numerator, denominator)

\* [ok |-> FALSE] stands for the raised ValueError
year_range(start_year, end_year) ==
    IF end_year < start_year
    THEN [ok |-> FALSE, years |-> <<>>]
    ELSE [ok |-> TRUE, years |-> [i \in 1..(end_year - start_year + 1) |-> start_year + i - 1]]

---------------------------------------------------------------------------
(* DataFrames                                                              *)

\* A DataFrame: its column names and its rows in index order; a row is a
\* record with one field per column.
DataFrame(cols, rws) == [columns |-> cols, rows |-> rws]

ActivityRow(s, a) == [sector |-> s, activity |-> a]
FactorRow(s, c, m, n) == [sector |-> s, co2_factor |-> c, ch4_factor |-> m, n2o_factor |-> n]

\* The sequences over S of length at most n
SeqsUpTo(S, n) == UNION {[1..k -> S] : k \in 0..n}

\* The concatenation of a sequence of sequences
RECURSIVE Flatten(_)
Flatten(xss) == IF xss = <<>> THEN <<>> ELSE Head(xss) \o Flatten(Tail(xss))

Column(rws, c) == [i \in DOMAIN rws |-> rws[i][c]]

---------------------------------------------------------------------------
(* modules/emissions_engine.py                                             *)

REQUIRED_ACTIVITY_COLUMNS == {"sector", "activity"}
REQUIRED_FACTOR_COLUMNS == {"sector", "co2_factor", "ch4_factor", "n2o_factor"}

\* The outcome of a call: a returned value, or a raised exception
Returned(v) ==
    [status |-> "ok", exc |-> "", what |-> "", columns |-> {}, sectors |-> <<>>, value |-> v]
Raised(e, w, cols, secs) ==
    [status |-> "raise", exc |-> e, what |-> w, columns |-> cols, sectors |-> secs,
     value |-> <<>>]
NoResult ==
    [status |-> "none", exc |-> "", what |-> "", columns |-> {}, sectors |-> <<>>,
     value |-> <<>>]

\* _check_required: the required columns the frame lacks
MissingColumns(df, required) == required \ df.columns

\* The merge with the defaults written last: {**(gwp or {}), **DEFAULT_GWP}
gwp_values_defaults_last(gwp) == DEFAULT_GWP

\* {**DEFAULT_GWP, **(gwp or {})}: gwp is [keys |-> the keys supplied, val |-> their values]
gwp_values(gwp) == [k \in DOMAIN DEFAULT_GWP |-> IF k \in gwp.keys THEN gwp.val[k] ELSE DEFAULT_GWP[k]]

\* activity_df.merge(factor_df, how="left", on="sector"): for each activity row in
\* order, one row per factor row of the same sector in factor order, or one row
\* with null factors when there is none.
MergeLeft(arows, frows) ==
    LET joined(a) ==
            LET m == SelectSeq(frows, LAMBDA f : f.sector = a.sector)
            IN  IF m = <<>>
                THEN << [sector |-> a.sector, activity |-> a.activity,
                         co2_factor |-> NaN, ch4_factor |-> NaN, n2o_factor |-> NaN] >>
                ELSE [i \in DOMAIN m |->
                        [sector |-> a.sector, activity |-> a.activity,
                         co2_factor |-> m[i].co2_factor, ch4_factor |-> m[i].ch4_factor,
                         n2o_factor |-> m[i].n2o_factor]]
    IN  Flatten([i \in DOMAIN arows |-> joined(arows[i])])

\* One result row: lines 35-42
EmissionRow(m, g) ==
    LET co2 == RMul(m.activity, m.co2_factor)
        ch4 == RMul(m.activity, m.ch4_factor)
        n2o == RMul(m.activity, m.n2o_factor)
    IN  [sector |-> m.sector, activity |-> m.activity, co2 |-> co2, ch4 |-> ch4, n2o |-> n2o,
         co2e |-> RAdd(RAdd(co2, RMul(ch4, g.CH4)), RMul(n2o, g.N2O))]

\* sort_values("co2e", ascending=False): descending, rows of equal co2e in their
\* original order, null co2e last.
RECURSIVE InsertDesc(_, _)
InsertDesc(sorted, r) ==
    IF sorted = <<>> THEN <<r>>
    ELSE IF ~IsNaN(r.co2e) /\ (IsNaN(Head(sorted).co2e) \/ RLt(Head(sorted).co2e, r.co2e))
         THEN <<r>> \o sorted
         ELSE <<Head(sorted)>> \o InsertDesc(Tail(sorted), r)

RECURSIVE SortDescCo2e(_)
SortDescCo2e(rws) ==
    IF rws = <<>> THEN <<>>
    ELSE InsertDesc(SortDescCo2e(SubSeq(rws, 1, Len(rws) - 1)), rws[Len(rws)])

compute_sector_emissions(activity_df, factor_df, gwp) ==
    IF MissingColumns(activity_df, REQUIRED_ACTIVITY_COLUMNS) # {}
    THEN Raised("ValueError", "activity_df missing columns",
                MissingColumns(activity_df, REQUIRED_ACTIVITY_COLUMNS), <<>>)
    ELSE IF MissingColumns(factor_df, REQUIRED_FACTOR_COLUMNS) # {}
    THEN Raised("ValueError", "factor_df missing columns",
                MissingColumns(factor_df, REQUIRED_FACTOR_COLUMNS), <<>>)
    ELSE
    LET g == gwp_values(gwp)
        merged == MergeLeft(activity_df.rows, factor_df.rows)
        anyna == \E i \in DOMAIN merged :
                    IsNaN(merged[i].co2_factor) \/ IsNaN(merged[i].ch4_factor)
                        \/ IsNaN(merged[i].n2o_factor)
        missing_sectors == Column(SelectSeq(merged, LAMBDA m : IsNaN(m.co2_factor)), "sector")
    IN  IF anyna
        THEN Raised("ValueError", "Missing emission factors for sectors", {}, missing_sectors)
        ELSE Returned(SortDescCo2e([i \in DOMAIN merged |-> EmissionRow(merged[i], g)]))

\* Series.sum(): nulls are skipped
RECURSIVE SumSkipNa(_)
SumSkipNa(xs) ==
    IF xs = <<>> THEN Z(0)
    ELSE IF IsNaN(Head(xs)) THEN SumSkipNa(Tail(xs))
    ELSE RAdd(Head(xs), SumSkipNa(Tail(xs)))

aggregate_emissions(sector_emissions, population, gdp) ==
    LET total == SumSkipNa(Column(sector_emissions, "co2e"))
    IN  [total_co2e |-> total,
         per_capita_co2e |-> safe_divide(total, population),
         per_gdp_co2e |-> safe_divide(total, gdp)]

---------------------------------------------------------------------------
(* modules/urban_form.py: the modifier calculator                          *)

UrbanFormParameters(density, compactness, transit) ==
    [density_per_km2 |-> density, compactness_index |-> compactness,
     transit_access_index |-> transit]

\* math.log1p at the arguments the model uses, rounded to three decimals
log1p(x) ==
    CASE x = Q(1, 1000) -> Q(1, 1000)
      [] x = Q(1, 10) -> Q(95, 1000)
      [] x = Z(4) -> Q(1609, 1000)
      [] x = Z(8) -> Q(2197, 1000)
      [] x = Z(100) -> Q(4615, 1000)
      [] x = PosInf -> PosInf
      [] x = NaN -> NaN

\* The calculator without the clamp of the transport product
calculate_urban_modifiers_unclamped(params) ==
    LET density_effect ==
            clamp(RSub(Z(1), RMul(Q(8, 100),
                    log1p(RDiv(PyMax(params.density_per_km2, Z(1)), Z(1000))))),
                  Q(65, 100), Q(105, 100))
        compactness_effect ==
            clamp(RSub(Z(1), RMul(Q(2, 10), params.compactness_index)), Q(75, 100), Q(105, 100))
        transit_effect ==
            clamp(RSub(Z(1), RMul(Q(25, 100), params.transit_access_index)), Q(7, 10), Q(105, 100))
        building_modifier ==
            clamp(RSub(Z(1), RMul(Q(1, 10), params.compactness_index)), Q(8, 10), Q(105, 100))
    IN  [transport |-> RMul(RMul(density_effect, compactness_effect), transit_effect),
         residential |-> building_modifier,
         energy |-> building_modifier]

calculate_urban_modifiers(params) ==
    LET density_effect ==
            clamp(RSub(Z(1), RMul(Q(8, 100),
                    log1p(RDiv(PyMax(params.density_per_km2, Z(1)), Z(1000))))),
                  Q(65, 100), Q(105, 100))
        compactness_effect ==
            clamp(RSub(Z(1), RMul(Q(2, 10), params.compactness_index)), Q(75, 100), Q(105, 100))
        transit_effect ==
            clamp(RSub(Z(1), RMul(Q(25, 100), params.transit_access_index)), Q(7, 10), Q(105, 100))
        transport_modifier ==
            clamp(RMul(RMul(density_effect, compactness_effect), transit_effect),
                  Q(45, 100), Q(11, 10))
        building_modifier ==
            clamp(RSub(Z(1), RMul(Q(1, 10), params.compactness_index)), Q(8, 10), Q(105, 100))
    IN  [transport |-> transport_modifier,
         residential |-> building_modifier,
         energy |-> building_modifier]

---------------------------------------------------------------------------
(* modules/scenario.py: the Scenario record                                *)

\* A str is the sequence of its characters
Str(chars) == chars
Baseline_ == Str(<<"B", "a", "s", "e", "l", "i", "n", "e">>)
baseline_ == Str(<<"b", "a", "s", "e", "l", "i", "n", "e">>)
Mitigation_ == Str(<<"M", "i", "t", "i", "g", "a", "t", "i", "o", "n">>)
mit_ == Str(<<"m", "i", "t">>)

UpperCase == <<"A", "B", "C", "D", "E", "F", "G", "H", "I", "J", "K", "L", "M",
               "N", "O", "P", "Q", "R", "S", "T", "U", "V", "W", "X", "Y", "Z">>
LowerCase == <<"a", "b", "c", "d", "e", "f", "g", "h", "i", "j", "k", "l", "m",
               "n", "o", "p", "q", "r", "s", "t", "u", "v", "w", "x", "y", "z">>

\* str.lower()
Lower(name) ==
    [i \in DOMAIN name |->
        IF \E k \in DOMAIN UpperCase : UpperCase[k] = name[i]
        THEN LowerCase[CHOOSE k \in DOMAIN UpperCase : UpperCase[k] = name[i]]
        ELSE name[i]]

Scenario(name, ee, rs, ms, ie, wr) ==
    [name |-> name, energy_efficiency |-> ee, renewable_share |-> rs, modal_shift |-> ms,
     industry_efficiency |-> ie, waste_reduction |-> wr]

Intensities ==
    {"energy_efficiency", "renewable_share", "modal_shift", "industry_efficiency",
     "waste_reduction"}

\* normalized() returning the scenario as it is
normalized_unclamped(self) == self

normalized(self) ==
    Scenario(self.name,
             clamp01(self.energy_efficiency),
             clamp01(self.renewable_share),
             clamp01(self.modal_shift),
             clamp01(self.industry_efficiency),
             clamp01(self.waste_reduction))

---------------------------------------------------------------------------
(* DataFrame objects: copy() and in-place writes                           *)

\* A second name for the same object instead of a copy
DfCopyAlias(h, ref) == [heap |-> h, ref |-> ref]

\* df.copy(): a new object holding the same table.  [heap, ref]
DfCopy(h, ref) == [heap |-> Append(h, h[ref]), ref |-> Len(h) + 1]

\* df.loc[df["sector"].isin(sectors), cols] = df.loc[..., cols] * mult, in place
LocMul(h, ref, sectors, cols, mult) ==
    [h EXCEPT ![ref].rows =
        [i \in DOMAIN @ |->
            IF @[i].sector \in sectors
            THEN [c \in DOMAIN @[i] |-> IF c \in cols THEN RMul(@[i][c], mult) ELSE @[i][c]]
            ELSE @[i]]]

\* for sector, mult in items: mask = df["sector"] == sector; if mask.any(): write
RECURSIVE LocMulEach(_, _, _)
LocMulEach(h, ref, items) ==
    IF items = <<>> THEN h
    ELSE LocMulEach(LocMul(h, ref, {Head(items)[1]}, {"activity"}, Head(items)[2]),
                    ref, Tail(items))

---------------------------------------------------------------------------
(* modules/urban_form.py: applying the modifiers                           *)

\* The loop of lines 38-41 stopping after the first item of the dict
apply_urban_form_modifiers_first_key(h, activity_df, modifiers) ==
    LET df == DfCopy(h, activity_df)
    IN  [heap |-> LocMulEach(df.heap, df.ref, SelectSeq(modifiers, LAMBDA item : item = modifiers[1])), ref |-> df.ref]

\* modifiers is the dict as the sequence of its (sector, modifier) items
apply_urban_form_modifiers(h, activity_df, modifiers) ==
    LET df == DfCopy(h, activity_df)
    IN  [heap |-> LocMulEach(df.heap, df.ref, modifiers), ref |-> df.ref]

---------------------------------------------------------------------------
(* modules/scenario.py: apply_scenario and forecast_scenarios              *)

FACTOR_COLUMNS == {"co2_factor", "ch4_factor", "n2o_factor"}

\* adjustments with the transport and industry intensities exchanged
adjustments_swapped(scn) ==
    << <<"residential", RSub(Z(1), scn.energy_efficiency)>>,
       <<"energy", RSub(Z(1), scn.energy_efficiency)>>,
       <<"transport", RSub(Z(1), scn.industry_efficiency)>>,
       <<"industry", RSub(Z(1), scn.modal_shift)>>,
       <<"waste", RSub(Z(1), scn.waste_reduction)>> >>

\* The dict `adjustments` in insertion order
adjustments(scn) ==
    << <<"residential", RSub(Z(1), scn.energy_efficiency)>>,
       <<"energy", RSub(Z(1), scn.energy_efficiency)>>,
       <<"transport", RSub(Z(1), scn.modal_shift)>>,
       <<"industry", RSub(Z(1), scn.industry_efficiency)>>,
       <<"waste", RSub(Z(1), scn.waste_reduction)>> >>

\* [heap, activity, factors]: the heap after the call and the two frames returned
apply_scenario(h, activity_df, factor_df, scenario) ==
    LET scn == normalized(scenario)
        adjusted_activity == DfCopy(h, activity_df)
        adjusted_factors == DfCopy(adjusted_activity.heap, factor_df)
        h1 == LocMulEach(adjusted_factors.heap, adjusted_activity.ref, adjustments(scn))
        h2 == LocMul(h1, adjusted_factors.ref, {"energy"}, FACTOR_COLUMNS,
                     RSub(Z(1), scn.renewable_share))
    IN  [heap |-> h2, activity |-> adjusted_activity.ref, factors |-> adjusted_factors.ref]

\* The industry and energy scale taken as the GDP scale alone
production_scale_gdp_only(pop_scale, gdp_scale) == gdp_scale

\* Line 89: (pop_scale + gdp_scale) / 2
production_scale(pop_scale, gdp_scale) == RDiv(RAdd(pop_scale, gdp_scale), Z(2))

\* One pass of the loop body, lines 77-108, for one scenario and year.
\* [heap, outcome]: outcome is the appended record, or the exception raised.
ForecastCell(h, base_activity_df, factor_df, a, scenario, year) ==
    LET t == year - a.start_year
        population == RMul(a.population_base, RPow(RAdd(Z(1), a.population_growth), t))
        gdp_per_capita == RMul(a.gdp_per_capita_base, RPow(RAdd(Z(1), a.gdp_growth), t))
        gdp == RMul(population, gdp_per_capita)
        scaled == DfCopy(h, base_activity_df)
        pop_scale == RPow(RAdd(Z(1), a.population_growth), t)
        gdp_scale == RPow(RAdd(Z(1), a.gdp_growth), t)
        h1 == LocMul(scaled.heap, scaled.ref, {"residential", "transport", "waste"},
                     {"activity"}, pop_scale)
        h2 == LocMul(h1, scaled.ref, {"industry", "energy"}, {"activity"},
                     production_scale(pop_scale, gdp_scale))
        urban == IF a.urban_modifiers # <<>>
                 THEN apply_urban_form_modifiers(h2, scaled.ref, a.urban_modifiers)
                 ELSE [heap |-> h2, ref |-> scaled.ref]
        adj == apply_scenario(urban.heap, urban.ref, factor_df, scenario)
        sector == compute_sector_emissions(adj.heap[adj.activity], adj.heap[adj.factors],
                                           [keys |-> {}, val |-> DEFAULT_GWP])
        summary == aggregate_emissions(sector.value, population, gdp)
    IN  [heap |-> adj.heap,
         outcome |->
            IF sector.status = "raise" THEN sector
            ELSE Returned([year |-> year, scenario |-> scenario.name,
                           total_co2e |-> summary.total_co2e,
                           per_capita_co2e |-> summary.per_capita_co2e,
                           per_gdp_co2e |-> summary.per_gdp_co2e,
                           population |-> population, gdp |-> gdp])]

IsBaselineName(name) == Lower(name) = baseline_

\* The percentage taken relative to the row's own total
ChangeVsBaselinePctOfOwnTotal(total_co2e, baseline_total) ==
    RMul(RDiv(RSub(total_co2e, baseline_total), total_co2e), Z(100))

\* Line 115: ((total_co2e - baseline_total) / baseline_total) * 100
ChangeVsBaselinePct(total_co2e, baseline_total) ==
    RMul(RDiv(RSub(total_co2e, baseline_total), baseline_total), Z(100))

\* Lines 110-115: df.merge(baseline, on="year", how="left") and the percentage
\* column: one row per record and baseline row of its year, or one row with a
\* null baseline_total when there is none.
MergeBaseline(recs) ==
    LET baseline == SelectSeq(recs, LAMBDA r : IsBaselineName(r.scenario))
        withTotal(r, bt) ==
            [year |-> r.year, scenario |-> r.scenario, total_co2e |-> r.total_co2e,
             per_capita_co2e |-> r.per_capita_co2e, per_gdp_co2e |-> r.per_gdp_co2e,
             population |-> r.population, gdp |-> r.gdp, baseline_total |-> bt,
             change_vs_baseline_pct |-> ChangeVsBaselinePct(r.total_co2e, bt)]
        joined(r) ==
            LET m == SelectSeq(baseline, LAMBDA b : b.year = r.year)
            IN  IF m = <<>> THEN << withTotal(r, NaN) >>
                ELSE [i \in DOMAIN m |-> withTotal(r, m[i].total_co2e)]
    IN  Flatten([i \in DOMAIN recs |-> joined(recs[i])])

\* Line 116 without str.lower()
ZeroBaselineRowsCaseSensitive(merged) ==
    [i \in DOMAIN merged |->
        IF merged[i].scenario = baseline_
        THEN [merged[i] EXCEPT !.change_vs_baseline_pct = Z(0)]
        ELSE merged[i]]

\* Line 116: merged.loc[scenario.str.lower() == "baseline", pct] = 0.0
ZeroBaselineRows(merged) ==
    [i \in DOMAIN merged |->
        IF IsBaselineName(merged[i].scenario)
        THEN [merged[i] EXCEPT !.change_vs_baseline_pct = Z(0)]
        ELSE merged[i]]

---------------------------------------------------------------------------
(* modules/io_handlers.py: the pre-flight validation                       *)

\* A null cell of the sector column
NullSector == "<NA>"

\* One message of an error or warning list: its text and the columns it names
Finding(text, cols) == [text |-> text, columns |-> cols]

\* (df[c] < 0).any(), (df[c] == 0).any(), df[c].isna().any(): comparisons with a
\* null cell are False
AnyNegative(df, c) == \E i \in DOMAIN df.rows : RLt(df.rows[i][c], Z(0))
AnyZero(df, c) == \E i \in DOMAIN df.rows : df.rows[i][c] = Z(0)
AnyNa(df, c) == \E i \in DOMAIN df.rows : IsNaN(df.rows[i][c])

\* df["sector"].duplicated().any()
AnyDuplicated(df) ==
    \E i, j \in DOMAIN df.rows : i < j /\ df.rows[i].sector = df.rows[j].sector

\* The findings of a sequence of checks: the messages whose condition holds, in order
Findings(checks) == Column(SelectSeq(checks, LAMBDA c : c[1]), 2)

\* The zero-activity check written as activity <= 0
validate_activity_data_nonpositive(df) ==
    IF MissingColumns(df, REQUIRED_ACTIVITY_COLUMNS) # {}
    THEN [errors |-> << Finding("Missing columns", MissingColumns(df, REQUIRED_ACTIVITY_COLUMNS)) >>,
          warnings |-> <<>>]
    ELSE [errors |-> Findings(<<
              <<\E i \in DOMAIN df.rows : df.rows[i].sector = NullSector,
                Finding("Sector values cannot be empty", {})>>,
              <<AnyNa(df, "activity"), Finding("Activity values cannot be empty", {})>>,
              <<AnyNegative(df, "activity"), Finding("Activity values must be non-negative", {})>> >>),
          warnings |-> Findings(<<
              <<AnyZero(df, "activity") \/ AnyNegative(df, "activity"),
                Finding("Some activities are zero; this may understate emissions", {})>> >>)]

\* [errors, warnings]
validate_activity_data(df) ==
    IF MissingColumns(df, REQUIRED_ACTIVITY_COLUMNS) # {}
    THEN [errors |-> << Finding("Missing columns", MissingColumns(df, REQUIRED_ACTIVITY_COLUMNS)) >>,
          warnings |-> <<>>]
    ELSE [errors |-> Findings(<<
              <<\E i \in DOMAIN df.rows : df.rows[i].sector = NullSector,
                Finding("Sector values cannot be empty", {})>>,
              <<AnyNa(df, "activity"), Finding("Activity values cannot be empty", {})>>,
              <<AnyNegative(df, "activity"), Finding("Activity values must be non-negative", {})>> >>),
          warnings |-> Findings(<<
              <<AnyZero(df, "activity"),
                Finding("Some activities are zero; this may understate emissions", {})>> >>)]

\* for col in ["co2_factor", "ch4_factor", "n2o_factor"]: the two checks of a column
FactorColumnChecks(df, col) ==
    << <<AnyNa(df, col), Finding("Column has null values", {col})>>,
       <<AnyNegative(df, col), Finding("Column has negative factors", {col})>> >>

\* [errors, warnings]
validate_factor_data(df) ==
    IF MissingColumns(df, REQUIRED_FACTOR_COLUMNS) # {}
    THEN [errors |-> << Finding("Missing columns", MissingColumns(df, REQUIRED_FACTOR_COLUMNS)) >>,
          warnings |-> <<>>]
    ELSE [errors |-> Findings(FactorColumnChecks(df, "co2_factor")
                                \o FactorColumnChecks(df, "ch4_factor")
                                \o FactorColumnChecks(df, "n2o_factor")),
          warnings |-> Findings(<<
              <<AnyDuplicated(df),
                Finding("Duplicate sectors in factor table; first match will be used", {})>> >>)]

---------------------------------------------------------------------------
(* modules/storage.py and utils.now_iso                                    *)

Digits == <<"0", "1", "2", "3", "4", "5", "6", "7", "8", "9">>

\* %H, %M, %S of strftime: two decimal digits
TwoDigits(n) == <<Digits[(n \div 10) + 1], Digits[(n % 10) + 1]>>

\* datetime.utcnow().strftime("%Y-%m-%dT%H:%M:%SZ") at second t of 2025-01-01
now_iso(t) ==
    Str(<<"2", "0", "2", "5", "-", "0", "1", "-", "0", "1", "T">>)
        \o TwoDigits(t \div 3600) \o <<":">> \o TwoDigits((t \div 60) % 60)
        \o <<":">> \o TwoDigits(t % 60) \o <<"Z">>

\* str.replace(old, "") for a one-character old
Remove(s, old) == SelectSeq(s, LAMBDA c : c # old)

\* f"run_{now_iso().replace(':', '').replace('-', '')}.json"
RunFilename(t) ==
    <<"r", "u", "n", "_">> \o Remove(Remove(now_iso(t), ":"), "-")
        \o <<".", "j", "s", "o", "n">>

\* Python values of a payload, and the JSON document json.dumps writes for them.
\* A document is kept as its syntax tree; the layout of indent=2 is a function
\* of the tree and is not modelled.
PyStr(chars) == [t |-> "str", v |-> chars]
PyInt(i) == [t |-> "int", v |-> i]
PyFloat(x) == [t |-> "float", v |-> x]
PyList(xs) == [t |-> "list", v |-> xs]
PyTuple(xs) == [t |-> "tuple", v |-> xs]
PyDict(items) == [t |-> "dict", v |-> items]

JString(chars) == [j |-> "string", v |-> chars]
JNumber(i) == [j |-> "number", v |-> i]
JReal(x) == [j |-> "real", v |-> x]
JArray(xs) == [j |-> "array", v |-> xs]
JObject(members) == [j |-> "object", v |-> members]

\* json.dumps(payload, indent=2, default=str): lists and tuples both become
\* arrays; the keys of the payloads modelled are strings
RECURSIVE json_dumps(_)
json_dumps(x) ==
    CASE x.t = "str" -> JString(x.v)
      [] x.t = "int" -> JNumber(x.v)
      [] x.t = "float" -> JReal(x.v)
      [] x.t \in {"list", "tuple"} -> JArray([i \in DOMAIN x.v |-> json_dumps(x.v[i])])
      [] x.t = "dict" -> JObject([i \in DOMAIN x.v |-> <<x.v[i][1], json_dumps(x.v[i][2])>>])

\* json.loads(text): arrays become lists
RECURSIVE json_loads(_)
json_loads(d) ==
    CASE d.j = "string" -> PyStr(d.v)
      [] d.j = "number" -> PyInt(d.v)
      [] d.j = "real" -> PyFloat(d.v)
      [] d.j = "array" -> PyList([i \in DOMAIN d.v |-> json_loads(d.v[i])])
      [] d.j = "object" -> PyDict([i \in DOMAIN d.v |-> <<d.v[i][1], json_loads(d.v[i][2])>>])

\* A runs directory that does not exist, and one that does
NoDirectory == [exists |-> FALSE, files |-> <<>>]
Directory(files) == [exists |-> TRUE, files |-> files]

\* Characters in ASCII order, for the comparison of file names
AsciiOrder ==
    <<".">> \o Digits \o <<"T", "Z", "_">>
        \o <<"a", "b", "c", "d", "e", "f", "g", "h", "i", "j", "k", "l", "m", "n", "o",
              "p", "q", "r", "s", "t", "u", "v", "w", "x", "y", "z">>
CharCode(c) == CHOOSE i \in DOMAIN AsciiOrder : AsciiOrder[i] = c

\* a < b for two names, as str compares them
RECURSIVE StrLess(_, _)
StrLess(a, b) ==
    IF b = <<>> THEN FALSE
    ELSE IF a = <<>> THEN TRUE
    ELSE IF Head(a) = Head(b) THEN StrLess(Tail(a), Tail(b))
    ELSE CharCode(Head(a)) < CharCode(Head(b))

\* run_path.glob("run_*.json"): the names with that prefix and suffix
Glob(dir) ==
    {n \in DOMAIN dir.files :
        /\ Len(n) >= 9
        /\ SubSeq(n, 1, 4) = <<"r", "u", "n", "_">>
        /\ SubSeq(n, Len(n) - 4, Len(n)) = <<".", "j", "s", "o", "n">>}

\* sorted(names, reverse=True)
RECURSIVE SortedReverse(_)
SortedReverse(names) ==
    IF names = {} THEN <<>>
    ELSE LET top == CHOOSE n \in names : \A m \in names : m = n \/ StrLess(m, n)
         IN  <<top>> \o SortedReverse(names \ {top})

\* save_run(run_dir, payload): [dir, path], the directory after the call and
\* the path returned; write_text replaces the content of a file of that name
save_run(dir, payload, t) ==
    LET filename == RunFilename(t)
    IN  [dir |-> Directory((filename :> json_dumps(payload)) @@ dir.files),
         path |-> filename]

list_runs(dir) == IF ~dir.exists THEN <<>> ELSE SortedReverse(Glob(dir))

\* load_run(path); read_text of a file that is not there raises
load_run(dir, path) ==
    IF dir.exists /\ path \in DOMAIN dir.files
    THEN Returned(json_loads(dir.files[path]))
    ELSE Raised("FileNotFoundError", "", {}, <<>>)

---------------------------------------------------------------------------
(* The engine called on arbitrary tables: SpecEngine                       *)

\* The longest table the engine is given
MaxRows == 2

EngineSectors == {"residential", "energy"}
EngineActivities == {Z(100), Z(-3)}
\* (co2, ch4, n2o) factors: the tests' triple, a null co2 factor, a null ch4
\* factor, a negative factor
EngineFactors ==
    { <<Z(1), Q(1, 10), Q(1, 100)>>, <<NaN, Z(0), Z(2)>>,
      <<Z(2), NaN, Z(0)>>, <<Z(-1), Z(0), Q(1, 2)>> }

EngineActivityRows == {ActivityRow(s, a) : s \in EngineSectors, a \in EngineActivities}
\* The null co2 factor on residential rows only, the null ch4 factor on energy rows only
EngineFactorRows ==
    {FactorRow(s, f[1], f[2], f[3]) : s \in EngineSectors, f \in EngineFactors}
        \ ( {FactorRow("energy", NaN, Z(0), Z(2))}
            \cup {FactorRow("residential", Z(2), NaN, Z(0))} )

EngineActivityTables ==
    {DataFrame(REQUIRED_ACTIVITY_COLUMNS, r) : r \in SeqsUpTo(EngineActivityRows, MaxRows)}
        \cup {DataFrame({"sector"}, << [sector |-> "energy"] >>)}
EngineFactorTables ==
    {DataFrame(REQUIRED_FACTOR_COLUMNS, r) : r \in SeqsUpTo(EngineFactorRows, MaxRows)}
        \cup {DataFrame({"sector", "co2_factor"}, << [sector |-> "energy", co2_factor |-> Z(1)] >>)}

NoGwp == [keys |-> {}, val |-> DEFAULT_GWP]
GwpArguments ==
    { NoGwp,
      [keys |-> {"CH4"}, val |-> [DEFAULT_GWP EXCEPT !.CH4 = Z(30)]],
      [keys |-> {"N2O"}, val |-> [DEFAULT_GWP EXCEPT !.N2O = Z(300)]] }

Populations == {Z(0), Z(200)}
Gdps == {Z(0), Z(1000)}

NoCall == [op |-> "none"]

InitEngine ==
    /\ heap \in {<<a, f>> : a \in EngineActivityTables, f \in EngineFactorTables}
    /\ pc = "ready"
    /\ call = NoCall
    /\ result = NoResult
    /\ records = <<>>
    /\ cell = 0
    /\ run_dir = NoDirectory
    /\ clock = 0
    /\ saved = <<>>
    /\ session_state = <<>>

\* base_sector_results = compute_sector_emissions(activity_df, factor_df[, gwp])
CallComputeSectorEmissions ==
    /\ pc = "ready"
    /\ \E gwp \in GwpArguments :
        /\ call' = [op |-> "compute_sector_emissions", gwp |-> gwp]
        /\ result' = compute_sector_emissions(heap[1], heap[2], gwp)
    /\ pc' = "computed"
    /\ UNCHANGED <<heap, records, cell>>
    /\ UNCHANGED storeVars
    /\ UNCHANGED session_state

\* summary = aggregate_emissions(base_sector_results, population, gdp)
CallAggregateEmissions ==
    /\ pc = "computed"
    /\ call.op = "compute_sector_emissions"
    /\ result.status = "ok"
    /\ \E population \in Populations, gdp \in Gdps :
        /\ call' = [op |-> "aggregate_emissions", sector_results |-> result.value,
                    population |-> population, gdp |-> gdp]
        /\ result' = Returned(aggregate_emissions(result.value, population, gdp))
    /\ pc' = "done"
    /\ UNCHANGED <<heap, records, cell>>
    /\ UNCHANGED storeVars
    /\ UNCHANGED session_state

NextEngine == CallComputeSectorEmissions \/ CallAggregateEmissions

SpecEngine == InitEngine /\ [][NextEngine]_vars

---------------------------------------------------------------------------
(* Properties of the engine                                                *)

ToSet(xs) == {xs[i] : i \in DOMAIN xs}

WellFormedTables ==
    /\ REQUIRED_ACTIVITY_COLUMNS \subseteq heap[1].columns
    /\ REQUIRED_FACTOR_COLUMNS \subseteq heap[2].columns

FactorSectors == {heap[2].rows[j].sector : j \in DOMAIN heap[2].rows}

\* The sectors of the activity rows that have no row in the factor table
UnmatchedSectors ==
    {heap[1].rows[i].sector : i \in DOMAIN heap[1].rows} \ FactorSectors

\* The sectors of the activity rows joined to a factor row whose co2_factor is null
NullCo2Sectors ==
    {heap[1].rows[i].sector : i \in DOMAIN heap[1].rows}
        \cap {heap[2].rows[j].sector :
                j \in {k \in DOMAIN heap[2].rows : IsNaN(heap[2].rows[k].co2_factor)}}

ComputeCalled == pc = "computed" /\ call.op = "compute_sector_emissions"

\* C1 as stated: when some activity sector has no factor row, the call raises the
\* missing-factor error, the error lists exactly the unmatched sectors, and no
\* rows are returned.
C1_ErrorListsExactlyUnmatched ==
    (ComputeCalled /\ WellFormedTables /\ UnmatchedSectors # {}) =>
        /\ result.status = "raise"
        /\ result.what = "Missing emission factors for sectors"
        /\ result.value = <<>>
        /\ ToSet(result.sectors) = UnmatchedSectors

\* C1 amended: when some activity sector has no factor row, the call raises the
\* missing-factor error and returns no rows; the error lists every unmatched
\* sector and, besides these, exactly the activity sectors joined to a factor
\* row whose co2_factor is null.
C1_ErrorListsUnmatchedAndNullCo2 ==
    (ComputeCalled /\ WellFormedTables /\ UnmatchedSectors # {}) =>
        /\ result.status = "raise"
        /\ result.what = "Missing emission factors for sectors"
        /\ result.value = <<>>
        /\ ToSet(result.sectors) = UnmatchedSectors \cup NullCo2Sectors

\* C1 witness: a call on a table with one unmatched sector and one sector whose
\* factors are all present has raised.
C1_Witness ==
    /\ ComputeCalled /\ WellFormedTables
    /\ UnmatchedSectors = {"residential"}
    /\ \E i \in DOMAIN heap[1].rows : heap[1].rows[i].sector = "energy"
    /\ \A j \in DOMAIN heap[2].rows :
          ~IsNaN(heap[2].rows[j].co2_factor) /\ ~IsNaN(heap[2].rows[j].ch4_factor)
            /\ ~IsNaN(heap[2].rows[j].n2o_factor)
    /\ result.status = "raise"
    /\ result.sectors = <<"residential">>

\* The (activity row, factor row) pairs of one sector
MatchedPairs ==
    {p \in (DOMAIN heap[1].rows) \X (DOMAIN heap[2].rows) :
        heap[1].rows[p[1]].sector = heap[2].rows[p[2]].sector}

\* The row the claim expects for an activity row a and a factor row f, the GWPs
\* being the caller's override where supplied and 28 / 265 otherwise.
C2_ExpectedRow(a, f, gwp) ==
    LET ch4w == IF "CH4" \in gwp.keys THEN gwp.val.CH4 ELSE Z(28)
        n2ow == IF "N2O" \in gwp.keys THEN gwp.val.N2O ELSE Z(265)
        co2 == RMul(a.activity, f.co2_factor)
        ch4 == RMul(a.activity, f.ch4_factor)
        n2o == RMul(a.activity, f.n2o_factor)
    IN  [sector |-> a.sector, activity |-> a.activity, co2 |-> co2, ch4 |-> ch4, n2o |-> n2o,
         co2e |-> RAdd(co2, RAdd(RMul(ch4, ch4w), RMul(n2o, n2ow)))]

\* C2: a successful call returns, for every activity row and matching factor row,
\* one row with co2 = activity*co2_factor, ch4 = activity*ch4_factor,
\* n2o = activity*n2o_factor and co2e = co2 + ch4*GWP_CH4 + n2o*GWP_N2O under the
\* effective GWPs, and no other row.
C2_RowsAreActivityTimesFactor ==
    (ComputeCalled /\ result.status = "ok") =>
        LET expected(p) == C2_ExpectedRow(heap[1].rows[p[1]], heap[2].rows[p[2]], call.gwp)
            rows == {result.value[k] : k \in DOMAIN result.value}
                        \cup {expected(p) : p \in MatchedPairs}
        IN  \A r \in rows :
                Cardinality({k \in DOMAIN result.value : result.value[k] = r})
                    = Cardinality({p \in MatchedPairs : expected(p) = r})

\* C2 witness: activity 100 with factors (1, 0.1, 0.01) under the default GWPs
\* has given co2e 645.
C2_Witness ==
    /\ ComputeCalled /\ result.status = "ok" /\ call.gwp.keys = {}
    /\ \E k \in DOMAIN result.value :
          /\ result.value[k].activity = Z(100)
          /\ result.value[k].co2 = Z(100)
          /\ result.value[k].ch4 = Z(10)
          /\ result.value[k].n2o = Z(1)
          /\ result.value[k].co2e = Z(645)

\* C2 witness of an override: a CH4 override of 30 has been used, N2O at its default.
C2_WitnessOverride ==
    /\ ComputeCalled /\ result.status = "ok" /\ call.gwp.keys = {"CH4"}
    /\ \E k \in DOMAIN result.value :
          result.value[k].activity = Z(100) /\ result.value[k].co2e = Z(665)

AggregateCalled == pc = "done" /\ call.op = "aggregate_emissions"

RECURSIVE C3_Sum(_)
C3_Sum(xs) == IF xs = <<>> THEN Z(0) ELSE RAdd(C3_Sum(SubSeq(xs, 1, Len(xs) - 1)), xs[Len(xs)])

\* C3: total_co2e is the sum of co2e over the rows; per_capita_co2e is
\* total/population, and 0.0 when population is 0; per_gdp_co2e is total/gdp, and
\* 0.0 when gdp is 0; the call returns in every case.
C3_AggregateMetrics ==
    AggregateCalled =>
        LET total == C3_Sum(Column(call.sector_results, "co2e"))
        IN  /\ result.status = "ok"
            /\ result.value.total_co2e = total
            /\ result.value.per_capita_co2e =
                    (IF call.population = Z(0) THEN Z(0) ELSE RDiv(total, call.population))
            /\ result.value.per_gdp_co2e =
                    (IF call.gdp = Z(0) THEN Z(0) ELSE RDiv(total, call.gdp))

\* C3 witness: a non-zero total over two rows has been aggregated with
\* population 0 and a non-zero gdp.
C3_Witness ==
    /\ AggregateCalled
    /\ Len(call.sector_results) = 2
    /\ call.population = Z(0) /\ call.gdp = Z(1000)
    /\ result.value.total_co2e # Z(0)
    /\ result.value.per_capita_co2e = Z(0)
    /\ result.value.per_gdp_co2e # Z(0)

---------------------------------------------------------------------------
(* The scalar functions called on arbitrary arguments: SpecUnits           *)

IntensityInputs == {Q(-1, 2), Z(0), Q(3, 10), Z(1), Q(3, 2), NaN}
ScenarioInputs ==
    {Scenario(Mitigation_, e, r, m, i, w) :
        e \in IntensityInputs, r \in IntensityInputs, m \in IntensityInputs,
        i \in IntensityInputs, w \in IntensityInputs}
    \cup {Scenario(Baseline_, Z(0), Z(0), Z(0), Z(0), Z(0)),
          Scenario(baseline_, Z(2), Z(-1), NaN, PosInf, NegInf)}

DensityInputs == {Z(-50), Z(100), Z(4000), Z(8000), Z(100000), PosInf, NaN}
CompactnessInputs == {Z(-1), Z(0), Q(1, 2), Q(7, 10), Z(1), Z(3), NaN}
TransitInputs == {Z(-1), Z(0), Q(1, 2), Q(8, 10), Z(1), Z(2), NaN}

InitUnits ==
    /\ heap = <<DataFrame(REQUIRED_ACTIVITY_COLUMNS, <<>>),
                DataFrame(REQUIRED_FACTOR_COLUMNS, <<>>)>>
    /\ pc = "ready"
    /\ call = NoCall
    /\ result = NoResult
    /\ records = <<>>
    /\ cell = 0
    /\ run_dir = NoDirectory
    /\ clock = 0
    /\ saved = <<>>
    /\ session_state = <<>>

\* scenario.normalized()
CallNormalized ==
    /\ pc = "ready"
    /\ \E self \in ScenarioInputs :
        /\ call' = [op |-> "normalized", self |-> self]
        /\ result' = Returned(normalized(self))
    /\ pc' = "computed"
    /\ UNCHANGED <<heap, records, cell>>
    /\ UNCHANGED storeVars
    /\ UNCHANGED session_state

\* scenario.normalized().normalized(): the method applied to its own result
CallNormalizedAgain ==
    /\ pc = "computed"
    /\ call.op = "normalized"
    /\ call' = [op |-> "normalized", self |-> result.value, original |-> call.self]
    /\ result' = Returned(normalized(result.value))
    /\ pc' = "done"
    /\ UNCHANGED <<heap, records, cell>>
    /\ UNCHANGED storeVars
    /\ UNCHANGED session_state

\* calculate_urban_modifiers(UrbanFormParameters(...))
CallCalculateUrbanModifiers ==
    /\ pc = "ready"
    /\ \E d \in DensityInputs, c \in CompactnessInputs, t \in TransitInputs :
        /\ call' = [op |-> "calculate_urban_modifiers", params |-> UrbanFormParameters(d, c, t)]
        /\ result' = Returned(calculate_urban_modifiers(UrbanFormParameters(d, c, t)))
    /\ pc' = "done"
    /\ UNCHANGED <<heap, records, cell>>
    /\ UNCHANGED storeVars
    /\ UNCHANGED session_state

NextUnits == CallNormalized \/ CallNormalizedAgain \/ CallCalculateUrbanModifiers

SpecUnits == InitUnits /\ [][NextUnits]_vars

NormalizedCalled == call.op = "normalized" /\ pc \in {"computed", "done"}

\* C9: every intensity of normalized() is in [0,1]: 0 for an input below 0, 1 for
\* an input above 1, the input itself inside; the name is kept, the call returns
\* for every input, and normalizing a normalized scenario changes nothing.
C9_NormalizedClampsAndIsIdempotent ==
    NormalizedCalled =>
        /\ result.status = "ok"
        /\ result.value.name = call.self.name
        /\ \A f \in Intensities :
            /\ RLe(Z(0), result.value[f]) /\ RLe(result.value[f], Z(1))
            /\ RLt(call.self[f], Z(0)) => result.value[f] = Z(0)
            /\ RLt(Z(1), call.self[f]) => result.value[f] = Z(1)
            /\ (RLe(Z(0), call.self[f]) /\ RLe(call.self[f], Z(1))) =>
                    result.value[f] = call.self[f]
        /\ pc = "done" => result.value = call.self

\* C9 witness: a scenario with an intensity below 0, one above 1, one inside and a
\* null one has been normalized, and its result normalized again.
C9_Witness ==
    /\ NormalizedCalled /\ pc = "done"
    /\ call.original = Scenario(Mitigation_, Q(-1, 2), Q(3, 2), Q(3, 10), NaN, Z(0))
    /\ call.self = Scenario(Mitigation_, Z(0), Z(1), Q(3, 10), Z(1), Z(0))
    /\ result.value = call.self

\* C9 witness of the first application on out-of-range input
C9_WitnessFirst ==
    /\ NormalizedCalled /\ pc = "computed"
    /\ call.self = Scenario(Mitigation_, Q(-1, 2), Q(3, 2), Q(3, 10), NaN, Z(0))
    /\ result.value = Scenario(Mitigation_, Z(0), Z(1), Q(3, 10), Z(1), Z(0))

UrbanCalled == call.op = "calculate_urban_modifiers" /\ pc = "done"

\* C10: the result has exactly the keys transport, residential and energy, with
\* transport in [0.45, 1.10], residential in [0.80, 1.05] and energy equal to
\* residential.
C10_UrbanModifiersInBands ==
    UrbanCalled =>
        /\ result.status = "ok"
        /\ DOMAIN result.value = {"transport", "residential", "energy"}
        /\ RLe(Q(45, 100), result.value.transport) /\ RLe(result.value.transport, Q(110, 100))
        /\ RLe(Q(80, 100), result.value.residential) /\ RLe(result.value.residential, Q(105, 100))
        /\ result.value.energy = result.value.residential

\* C10 witness: the product of the three effects fell below 0.45 and was clamped
\* (density 100000, compactness 1, transit access 1).
C10_Witness ==
    /\ UrbanCalled
    /\ call.params = UrbanFormParameters(Z(100000), Z(1), Z(1))
    /\ result.value.transport = Q(45, 100)
    /\ result.value.residential = Q(9, 10)

\* C10 witness of the tests' parameters (8000, 0.7, 0.8): inside both bands
C10_WitnessInside ==
    /\ UrbanCalled
    /\ call.params = UrbanFormParameters(Z(8000), Q(7, 10), Q(8, 10))
    /\ RLt(Q(45, 100), result.value.transport) /\ RLt(result.value.transport, Q(110, 100))
    /\ result.value.residential = Q(93, 100)

---------------------------------------------------------------------------
(* The transforms called on the caller's tables: Spec                      *)

Sectors == {"residential", "transport", "industry", "waste", "energy"}

\* One activity row per sector, and one of a sector outside the five
ActivityRows ==
    { ActivityRow("residential", Z(1000)), ActivityRow("transport", Z(2000)),
      ActivityRow("industry", Z(500)), ActivityRow("waste", Z(200)),
      ActivityRow("energy", Z(800)), ActivityRow("agriculture", Z(300)) }

FactorRows ==
    { FactorRow("energy", Z(1), Z(0), Z(0)), FactorRow("energy", Z(2), Q(1, 10), NaN),
      FactorRow("transport", Z(3), Q(1, 10), Q(1, 100)) }

ActivityTables == {DataFrame(REQUIRED_ACTIVITY_COLUMNS, r) : r \in SeqsUpTo(ActivityRows, MaxRows)}
FactorTables == {DataFrame(REQUIRED_FACTOR_COLUMNS, r) : r \in SeqsUpTo(FactorRows, MaxRows)}

ZeroScenario(name) == Scenario(name, Z(0), Z(0), Z(0), Z(0), Z(0))

\* The tests' scenario, one with five distinct intensities, one out of range
ScenarioArguments ==
    { ZeroScenario(Baseline_),
      Scenario(mit_, Q(1, 10), Q(3, 10), Q(2, 10), Z(0), Z(0)),
      Scenario(Mitigation_, Q(1, 5), Q(3, 10), Q(1, 10), Q(1, 2), Q(1, 4)),
      Scenario(Mitigation_, Q(3, 2), Q(-1, 2), NaN, Z(1), Q(1, 2)) }

\* Modifier dicts as item sequences: empty, the calculator's three keys, one key
ModifierArguments ==
    { <<>>,
      << <<"transport", Q(1, 2)>>, <<"residential", Q(9, 10)>>, <<"energy", Q(9, 10)>> >>,
      << <<"agriculture", Z(2)>> >> }

Init ==
    /\ heap \in {<<a, f>> : a \in ActivityTables, f \in FactorTables}
    /\ pc = "ready"
    /\ call = NoCall
    /\ result = NoResult
    /\ records = <<>>
    /\ cell = 0
    /\ run_dir = NoDirectory
    /\ clock = 0
    /\ saved = <<>>
    /\ session_state = <<>>

\* The caller's two frames after a call; the frames the call created are its own
CallerFrames(h) == SubSeq(h, 1, 2)

\* out_activity, out_factors = apply_scenario(activity_df, factor_df, scenario)
CallApplyScenario ==
    /\ pc = "ready"
    /\ \E scenario \in ScenarioArguments :
        LET r == apply_scenario(heap, 1, 2, scenario)
        IN  /\ call' = [op |-> "apply_scenario", activity_df |-> heap[1],
                        factor_df |-> heap[2], scenario |-> scenario]
            /\ result' = Returned([activity |-> r.heap[r.activity],
                                   factors |-> r.heap[r.factors]])
            /\ heap' = CallerFrames(r.heap)
    /\ pc' = "done"
    /\ UNCHANGED <<records, cell>>
    /\ UNCHANGED storeVars
    /\ UNCHANGED session_state

\* out = apply_urban_form_modifiers(activity_df, modifiers); the call record also
\* keeps the caller's factor table as it was at the call
CallApplyUrbanFormModifiers ==
    /\ pc = "ready"
    /\ \E modifiers \in ModifierArguments :
        LET r == apply_urban_form_modifiers(heap, 1, modifiers)
        IN  /\ call' = [op |-> "apply_urban_form_modifiers", activity_df |-> heap[1],
                        factor_df |-> heap[2], modifiers |-> modifiers]
            /\ result' = Returned(r.heap[r.ref])
            /\ heap' = CallerFrames(r.heap)
    /\ pc' = "done"
    /\ UNCHANGED <<records, cell>>
    /\ UNCHANGED storeVars
    /\ UNCHANGED session_state

Next == CallApplyScenario \/ CallApplyUrbanFormModifiers

Spec == Init /\ [][Next]_vars

---------------------------------------------------------------------------
(* forecast_scenarios, one (scenario, year) cell per step: SpecForecast    *)

\* The longest list of scenarios and the longest year range of a forecast
MaxScenarios == 2
MaxYears == 2

StartYear == 2025

\* The table of the manual input panel: one row per sector
ForecastActivityRows ==
    << ActivityRow("residential", Z(1000)), ActivityRow("transport", Z(2000)),
       ActivityRow("industry", Z(500)), ActivityRow("waste", Z(200)),
       ActivityRow("energy", Z(800)) >>

FullFactors ==
    << FactorRow("residential", Z(1), Q(1, 10), Q(1, 100)),
       FactorRow("transport", Z(3), Q(1, 10), Q(1, 100)),
       FactorRow("industry", Z(2), Z(0), Q(1, 100)),
       FactorRow("waste", Q(1, 2), Z(1), Z(0)),
       FactorRow("energy", Z(1), Z(0), Z(0)) >>

\* A factor row for every sector; none for energy
ForecastFactorTables ==
    { DataFrame(REQUIRED_FACTOR_COLUMNS, FullFactors),
      DataFrame(REQUIRED_FACTOR_COLUMNS, SubSeq(FullFactors, 1, 4)) }

\* The panel's table, the empty table, and an upload of two of the sectors
ForecastActivityTables ==
    {DataFrame(REQUIRED_ACTIVITY_COLUMNS, r) :
        r \in { ForecastActivityRows, <<>>,
                <<ForecastActivityRows[1], ForecastActivityRows[5]>> }}

\* (population_base, population_growth, gdp_per_capita_base, gdp_growth)
GrowthArguments ==
    { <<Z(1000), Q(1, 2), Z(100), Z(1)>>,
      <<Z(0), Z(0), Z(100), Z(0)>>,
      <<Z(1000), Q(-1, 2), Z(100), Q(-1, 4)>> }

\* Two scenarios named baseline, one of them mitigating; a mitigation scenario
\* in range and one with intensities out of range
ForecastScenarios ==
    { ZeroScenario(Baseline_),
      Scenario(baseline_, Q(1, 2), Z(0), Z(0), Z(0), Z(0)),
      Scenario(Mitigation_, Q(1, 5), Q(3, 10), Q(1, 10), Q(1, 2), Q(1, 4)),
      Scenario(mit_, Q(-1, 2), Q(3, 2), NaN, Q(-1, 2), Q(1, 2)) }

\* The lists of up to MaxScenarios different scenarios
ScenarioLists ==
    {l \in SeqsUpTo(ForecastScenarios, MaxScenarios) :
        \A i, j \in DOMAIN l : i # j => l[i] # l[j]}

UrbanArguments ==
    { <<>>,
      << <<"transport", Q(1, 2)>>, <<"residential", Q(9, 10)>>, <<"energy", Q(9, 10)>> >> }

InitForecast ==
    /\ heap \in {<<a, f>> : a \in ForecastActivityTables, f \in ForecastFactorTables}
    /\ pc = "ready"
    /\ call = NoCall
    /\ result = NoResult
    /\ records = <<>>
    /\ cell = 0
    /\ run_dir = NoDirectory
    /\ clock = 0
    /\ saved = <<>>
    /\ session_state = <<>>

\* forecast_scenarios(...) is entered: records = []
ForecastStart ==
    /\ pc = "ready"
    /\ \E g \in GrowthArguments, end_year \in (StartYear - 1)..(StartYear + MaxYears - 1),
          scenarios \in ScenarioLists,
          urban_modifiers \in UrbanArguments :
        call' = [op |-> "forecast_scenarios", activity_df |-> heap[1], factor_df |-> heap[2],
                 population_base |-> g[1], population_growth |-> g[2],
                 gdp_per_capita_base |-> g[3], gdp_growth |-> g[4],
                 start_year |-> StartYear, end_year |-> end_year,
                 scenarios |-> scenarios, urban_modifiers |-> urban_modifiers]
    /\ pc' = "loop"
    /\ records' = <<>>
    /\ cell' = 0
    /\ UNCHANGED <<heap, result>>
    /\ UNCHANGED storeVars
    /\ UNCHANGED session_state

ForecastYears == year_range(call.start_year, call.end_year)

\* One pass of the body of `for scenario in scenarios: for year in year_range(...)`
ForecastIter ==
    /\ pc = "loop"
    /\ call.scenarios # <<>>
    /\ ~ForecastYears.ok \/ cell < Len(call.scenarios) * Len(ForecastYears.years)
    /\ IF ~ForecastYears.ok
       THEN /\ result' = Raised("ValueError", "end_year must be >= start_year", {}, <<>>)
            /\ pc' = "done"
            /\ UNCHANGED <<heap, records, cell>>
       ELSE LET n == Len(ForecastYears.years)
                scenario == call.scenarios[(cell \div n) + 1]
                year == ForecastYears.years[(cell % n) + 1]
                c == ForecastCell(heap, 1, 2, call, scenario, year)
            IN  /\ heap' = CallerFrames(c.heap)
                /\ IF c.outcome.status = "raise"
                   THEN /\ result' = c.outcome
                        /\ pc' = "done"
                        /\ UNCHANGED <<records, cell>>
                   ELSE /\ records' = Append(records, c.outcome.value)
                        /\ cell' = cell + 1
                        /\ UNCHANGED <<result, pc>>
    /\ UNCHANGED call
    /\ UNCHANGED storeVars
    /\ UNCHANGED session_state

\* Lines 110-117 after the loop: df = pd.DataFrame(records), the baseline join;
\* df["scenario"] on the frame of an empty list raises KeyError
ForecastPost ==
    /\ pc = "loop"
    /\ \/ call.scenarios = <<>>
       \/ ForecastYears.ok /\ cell = Len(call.scenarios) * Len(ForecastYears.years)
    /\ result' = IF records = <<>>
                 THEN Raised("KeyError", "scenario", {}, <<>>)
                 ELSE Returned(ZeroBaselineRows(MergeBaseline(records)))
    /\ pc' = "done"
    /\ UNCHANGED <<heap, call, records, cell>>
    /\ UNCHANGED storeVars
    /\ UNCHANGED session_state

NextForecast ==
    \/ ForecastStart
    \/ ForecastIter
    \/ ForecastPost
    \/ CallApplyScenario
    \/ CallApplyUrbanFormModifiers

SpecForecast == InitForecast /\ [][NextForecast]_vars

---------------------------------------------------------------------------
(* Properties of the transforms and of the forecast                        *)

ApplyScenarioCalled == pc = "done" /\ call.op = "apply_scenario"

\* The multiplier the claim gives an activity row of sector s under the clamped scenario
C7_ActivityMultiplier(s, scn) ==
    CASE s \in {"residential", "energy"} -> RSub(Z(1), scn.energy_efficiency)
      [] s = "transport" -> RSub(Z(1), scn.modal_shift)
      [] s = "industry" -> RSub(Z(1), scn.industry_efficiency)
      [] s = "waste" -> RSub(Z(1), scn.waste_reduction)
      [] OTHER -> Z(1)

\* C7: the returned activity table is the input with residential and energy
\* multiplied by (1-energy_efficiency), transport by (1-modal_shift), industry by
\* (1-industry_efficiency), waste by (1-waste_reduction), the intensities clamped
\* to [0,1], and every other row as it was; the returned factor table is the
\* input with the three factors of the energy rows multiplied by
\* (1-renewable_share) and every other row as it was.
C7_ApplyScenarioMultipliers ==
    ApplyScenarioCalled =>
        LET scn == normalized(call.scenario)
            ain == call.activity_df.rows
            fin == call.factor_df.rows
            aout == result.value.activity
            fout == result.value.factors
        IN  /\ result.status = "ok"
            /\ aout.columns = call.activity_df.columns
            /\ fout.columns = call.factor_df.columns
            /\ DOMAIN aout.rows = DOMAIN ain
            /\ DOMAIN fout.rows = DOMAIN fin
            /\ \A i \in DOMAIN ain :
                /\ aout.rows[i].sector = ain[i].sector
                /\ aout.rows[i].activity =
                    (IF ain[i].sector \in Sectors
                     THEN RMul(ain[i].activity, C7_ActivityMultiplier(ain[i].sector, scn))
                     ELSE ain[i].activity)
            /\ \A j \in DOMAIN fin :
                IF fin[j].sector = "energy"
                THEN /\ fout.rows[j].sector = "energy"
                     /\ \A c \in FACTOR_COLUMNS :
                            fout.rows[j][c] = RMul(fin[j][c], RSub(Z(1), scn.renewable_share))
                ELSE fout.rows[j] = fin[j]

\* C7 witness: the tests' scenario (energy_efficiency 0.1, renewable_share 0.3,
\* modal_shift 0.2) on transport 2000 and residential 1000 gave 1600 and 900, the
\* energy co2 factor 1 became 0.7 and the transport factors stayed.
C7_Witness ==
    /\ ApplyScenarioCalled
    /\ call.scenario = Scenario(mit_, Q(1, 10), Q(3, 10), Q(2, 10), Z(0), Z(0))
    /\ call.activity_df.rows = <<ActivityRow("transport", Z(2000)), ActivityRow("residential", Z(1000))>>
    /\ result.value.activity.rows =
            <<ActivityRow("transport", Z(1600)), ActivityRow("residential", Z(900))>>
    /\ call.factor_df.rows = <<FactorRow("energy", Z(1), Z(0), Z(0)),
                               FactorRow("transport", Z(3), Q(1, 10), Q(1, 100))>>
    /\ result.value.factors.rows = <<FactorRow("energy", Q(7, 10), Z(0), Z(0)),
                                     FactorRow("transport", Z(3), Q(1, 10), Q(1, 100))>>

\* C7 witness of a sector outside the five and of out-of-range intensities
C7_WitnessOther ==
    /\ ApplyScenarioCalled
    /\ call.scenario = Scenario(Mitigation_, Q(3, 2), Q(-1, 2), NaN, Z(1), Q(1, 2))
    /\ call.activity_df.rows = <<ActivityRow("agriculture", Z(300)), ActivityRow("waste", Z(200))>>
    /\ result.value.activity.rows =
            <<ActivityRow("agriculture", Z(300)), ActivityRow("waste", Z(100))>>

TransformCalled ==
    call.op \in {"apply_scenario", "apply_urban_form_modifiers", "forecast_scenarios"}

\* C8: during and after a call of apply_scenario, apply_urban_form_modifiers or
\* forecast_scenarios the caller's activity table and factor table hold the
\* values they held when the call was made.
C8_InputsUntouched ==
    TransformCalled => (heap[1] = call.activity_df /\ heap[2] = call.factor_df)

ForecastDone == pc = "done" /\ call.op = "forecast_scenarios"
ForecastReturned == ForecastDone /\ result.status = "ok"

\* C8 witness: a forecast of two scenarios over two years with growth, urban
\* modifiers and a mitigating scenario has returned, on non-empty tables.
C8_Witness ==
    /\ ForecastReturned
    /\ Len(call.activity_df.rows) = 2
    /\ cell = 4
    /\ call.population_growth = Q(1, 2)
    /\ call.urban_modifiers # <<>>
    /\ \E k \in DOMAIN call.scenarios : call.scenarios[k].name = Mitigation_
    /\ \E k \in DOMAIN result.value :
          result.value[k].total_co2e # result.value[1].total_co2e

\* C8 witnesses of the two direct calls having changed what they return
C8_WitnessApplyScenario ==
    /\ ApplyScenarioCalled
    /\ result.value.activity # call.activity_df
    /\ result.value.factors # call.factor_df

C8_WitnessApplyUrban ==
    /\ pc = "done" /\ call.op = "apply_urban_form_modifiers"
    /\ result.value # call.activity_df

\* C4: every returned row whose scenario name is "baseline" in any letter case has
\* change_vs_baseline_pct exactly 0.0.
C4_BaselineRowsAreZero ==
    ForecastReturned =>
        \A k \in DOMAIN result.value :
            Lower(result.value[k].scenario) = baseline_ =>
                result.value[k].change_vs_baseline_pct = Z(0)

\* C4 witness: a Baseline row of a forecast whose baseline total is zero, for two years
C4_Witness ==
    /\ ForecastReturned
    /\ call.end_year = call.start_year + 1
    /\ \E k \in DOMAIN result.value :
          /\ result.value[k].scenario = Baseline_
          /\ result.value[k].year = call.end_year
          /\ result.value[k].total_co2e = Z(0)
          /\ result.value[k].change_vs_baseline_pct = Z(0)

\* C4 witness: a Baseline row with a non-zero total beside a row that differs from it
C4_WitnessNonZero ==
    /\ ForecastReturned
    /\ \E k, m \in DOMAIN result.value :
          /\ result.value[k].scenario = Baseline_
          /\ result.value[k].total_co2e # Z(0)
          /\ result.value[m].scenario = Mitigation_
          /\ result.value[m].year = result.value[k].year
          /\ RLt(result.value[m].change_vs_baseline_pct, Z(0))

\* C5 as stated: a forecast over start_year <= end_year returns exactly one row
\* per (scenario, year) pair: len(scenarios) * (end_year - start_year + 1) rows.
C5_OneRowPerScenarioYear ==
    (ForecastReturned /\ call.start_year <= call.end_year) =>
        Len(result.value) = Len(call.scenarios) * (call.end_year - call.start_year + 1)

\* C6 as stated: a call with end_year < start_year fails with the error of
\* year_range, whatever the list of scenarios, and returns no rows.
C6_BadRangeRaisesYearRangeError ==
    (ForecastDone /\ call.end_year < call.start_year) =>
        /\ result.status = "raise"
        /\ result.exc = "ValueError"
        /\ result.what = "end_year must be >= start_year"
        /\ result.value = <<>>

---------------------------------------------------------------------------
(* Properties of apply_urban_form_modifiers                                *)

ApplyUrbanCalled == pc = "done" /\ call.op = "apply_urban_form_modifiers"

\* The keys of a dict given as its item sequence
Keys(items) == {items[k][1] : k \in DOMAIN items}

\* C11: the returned table has the rows of the input in order; a row whose sector
\* is a key of the modifier map has its activity multiplied by that key's
\* modifier, once; a row whose sector is not a key is as it was; a key with no
\* row changes nothing and the call returns normally.
C11_UrbanModifiersApplied ==
    ApplyUrbanCalled =>
        LET ain == call.activity_df.rows
            out == result.value
        IN  /\ result.status = "ok"
            /\ out.columns = call.activity_df.columns
            /\ DOMAIN out.rows = DOMAIN ain
            /\ \A i \in DOMAIN ain :
                /\ out.rows[i].sector = ain[i].sector
                /\ \A k \in DOMAIN call.modifiers :
                        call.modifiers[k][1] = ain[i].sector =>
                            out.rows[i].activity = RMul(ain[i].activity, call.modifiers[k][2])
                /\ ain[i].sector \notin Keys(call.modifiers) => out.rows[i] = ain[i]

\* C11 witness: the three-key map on a table with a transport row and a row of a
\* sector that is no key; residential and energy are keys with no row.
C11_Witness ==
    /\ ApplyUrbanCalled
    /\ Keys(call.modifiers) = {"transport", "residential", "energy"}
    /\ call.activity_df.rows = <<ActivityRow("agriculture", Z(300)), ActivityRow("transport", Z(2000))>>
    /\ result.value.rows = <<ActivityRow("agriculture", Z(300)), ActivityRow("transport", Z(1000))>>

\* C11 witness: two rows of one sector, each multiplied once
C11_WitnessTwoRows ==
    /\ ApplyUrbanCalled
    /\ call.activity_df.rows = <<ActivityRow("residential", Z(1000)), ActivityRow("residential", Z(1000))>>
    /\ result.value.rows = <<ActivityRow("residential", Z(900)), ActivityRow("residential", Z(900))>>

---------------------------------------------------------------------------
(* Properties of the engine on duplicate and out-of-range factor rows      *)

\* The first row of the factor table for a sector
FirstFactorRow(sector) ==
    heap[2].rows[CHOOSE j \in DOMAIN heap[2].rows :
                    /\ heap[2].rows[j].sector = sector
                    /\ \A k \in 1..(j - 1) : heap[2].rows[k].sector # sector]

DuplicateFactorSectors ==
    \E j, k \in DOMAIN heap[2].rows : j # k /\ heap[2].rows[j].sector = heap[2].rows[k].sector

\* C12 as stated: when the factor table holds more than one row for a sector, a
\* successful call returns exactly one row per activity row, each computed from
\* the first factor row of its sector.
C12_FirstOccurrenceWins ==
    (ComputeCalled /\ WellFormedTables /\ DuplicateFactorSectors /\ result.status = "ok") =>
        /\ Len(result.value) = Len(heap[1].rows)
        /\ \A k \in DOMAIN result.value :
              \E i \in DOMAIN heap[1].rows :
                  result.value[k] =
                      C2_ExpectedRow(heap[1].rows[i], FirstFactorRow(heap[1].rows[i].sector), call.gwp)

---------------------------------------------------------------------------
(* Properties of the baseline join of forecast_scenarios                   *)

BaselinePresent == \E k \in DOMAIN call.scenarios : IsBaselineName(call.scenarios[k].name)

\* The baseline rows of a year in the returned table
BaselineRowsOf(year) ==
    {k \in DOMAIN result.value :
        IsBaselineName(result.value[k].scenario) /\ result.value[k].year = year}

\* C13: when a scenario named "baseline" in any letter case is present, every
\* returned row of another scenario has change_vs_baseline_pct =
\* (total_co2e - B) / B * 100 for B the total_co2e of a baseline row of its year,
\* and it is returned once for each baseline row of its year.
C13_ChangeVsBaseline ==
    (ForecastReturned /\ BaselinePresent) =>
        \A k \in DOMAIN result.value :
            ~IsBaselineName(result.value[k].scenario) =>
                LET r == result.value[k]
                    pct(b) == RMul(RDiv(RSub(r.total_co2e, result.value[b].total_co2e),
                                        result.value[b].total_co2e), Z(100))
                IN  /\ \E b \in BaselineRowsOf(r.year) : r.change_vs_baseline_pct = pct(b)
                    /\ \A b \in BaselineRowsOf(r.year) :
                          \E m \in DOMAIN result.value :
                              /\ result.value[m].scenario = r.scenario
                              /\ result.value[m].year = r.year
                              /\ result.value[m].total_co2e = r.total_co2e
                              /\ result.value[m].change_vs_baseline_pct = pct(b)

\* C13 witness: in the second year of a forecast of Baseline and Mitigation the
\* Mitigation row is a finite negative percentage of a non-zero baseline total.
C13_Witness ==
    /\ ForecastReturned
    /\ Len(call.scenarios) = 2
    /\ call.scenarios[1].name = Baseline_ /\ call.scenarios[2].name = Mitigation_
    /\ call.end_year = call.start_year + 1
    /\ Len(result.value) = 4
    /\ result.value[2].year = call.end_year /\ result.value[4].year = call.end_year
    /\ RGt(result.value[2].total_co2e, Z(0))
    /\ RLt(result.value[4].total_co2e, result.value[2].total_co2e)
    /\ IsFinite(result.value[4].change_vs_baseline_pct)
    /\ RLt(result.value[4].change_vs_baseline_pct, Z(0))
    /\ RLt(Z(-100), result.value[4].change_vs_baseline_pct)

\* Every (scenario, year) cell of the loop has been computed and the post-pass has run
LoopCompleted ==
    /\ ForecastDone
    /\ call.start_year <= call.end_year
    /\ cell = Len(call.scenarios) * (call.end_year - call.start_year + 1)

AllRowsUndefinedPct ==
    /\ result.status = "ok"
    /\ Len(result.value) = Len(call.scenarios) * (call.end_year - call.start_year + 1)
    /\ \A k \in DOMAIN result.value :
          /\ result.value[k].scenario = call.scenarios[((k - 1) \div (call.end_year - call.start_year + 1)) + 1].name
          /\ IsNaN(result.value[k].change_vs_baseline_pct)

\* C14 as stated: when no scenario is named "baseline" in any letter case, a
\* call whose cells all computed returns one row per (scenario, year) without
\* raising, and change_vs_baseline_pct is NaN in every row.
C14_NoBaselineGivesNaN ==
    (LoopCompleted /\ ~BaselinePresent) => AllRowsUndefinedPct

\* C14 for a list of at least one scenario, none named "baseline": the call
\* returns one row per (scenario, year) and change_vs_baseline_pct is NaN in
\* every row.
C14_NoBaselineGivesNaNNonEmpty ==
    (LoopCompleted /\ ~BaselinePresent /\ call.scenarios # <<>>) => AllRowsUndefinedPct

\* C14 witness: a forecast of Mitigation alone over two years has returned two
\* rows with non-zero totals and NaN percentages.
C14_Witness ==
    /\ ForecastReturned
    /\ Len(call.scenarios) = 1 /\ call.scenarios[1].name = Mitigation_
    /\ Len(result.value) = 2
    /\ RGt(result.value[1].total_co2e, Z(0))
    /\ IsNaN(result.value[1].change_vs_baseline_pct)
    /\ IsNaN(result.value[2].change_vs_baseline_pct)

---------------------------------------------------------------------------
(* The run store used over time: SpecStore                                 *)

\* The most save_run calls of a behaviour, and the most seconds the clock advances
MaxSaves == 2
MaxTicks == 2

\* The second of the day at which a behaviour starts: midnight, and the last
\* second of a minute
StartSeconds == {0, 59}
ClockRange == UNION {s..(s + MaxTicks) : s \in StartSeconds}

\* The payload of the storage test, one differing in a value, one holding a
\* list, and one holding a tuple (not a JSON value)
Payloads ==
    { PyDict(<< <<Str(<<"c", "i", "t", "y">>), PyStr(<<"d", "e", "m", "o">>)>>,
                <<Str(<<"v", "a", "l", "u", "e">>), PyInt(123)>> >>),
      PyDict(<< <<Str(<<"c", "i", "t", "y">>), PyStr(<<"d", "e", "m", "o">>)>>,
                <<Str(<<"v", "a", "l", "u", "e">>), PyInt(124)>> >>),
      PyDict(<< <<Str(<<"f", "o", "r", "e", "c", "a", "s", "t">>),
                  PyList(<<PyDict(<< <<Str(<<"y", "e", "a", "r">>), PyInt(2025)>> >>)>>)>> >>),
      PyDict(<< <<Str(<<"b", "o", "u", "n", "d", "s">>), PyTuple(<<PyInt(1), PyInt(2)>>)>> >>) }

\* The directory before the first call: absent, empty, or holding a file that
\* is not a run
InitialDirectories ==
    { NoDirectory, Directory(<<>>),
      Directory(Str(<<"n", "o", "t", "e", "s", ".", "t", "x", "t">>) :> JString(<<"x">>)) }

InitStore ==
    /\ heap = <<>>
    /\ pc = "ready"
    /\ call = NoCall
    /\ result = NoResult
    /\ records = <<>>
    /\ cell = 0
    /\ run_dir \in InitialDirectories
    /\ clock \in StartSeconds
    /\ saved = <<>>
    /\ session_state = <<>>

\* A second passes
Tick ==
    /\ clock + 1 \in ClockRange
    /\ clock' = clock + 1
    /\ UNCHANGED <<heap, pc, call, result, records, cell, run_dir, saved, session_state>>

\* saved = save_run(RUN_DIR, run_payload)
CallSaveRun ==
    /\ Len(saved) < MaxSaves
    /\ \E payload \in Payloads :
        LET r == save_run(run_dir, payload, clock)
        IN  /\ call' = [op |-> "save_run", payload |-> payload]
            /\ result' = Returned(r.path)
            /\ run_dir' = r.dir
            /\ saved' = Append(saved, [path |-> r.path, payload |-> payload])
    /\ UNCHANGED <<heap, pc, records, cell, clock, session_state>>

\* runs = list_runs(RUN_DIR)
CallListRuns ==
    /\ call' = [op |-> "list_runs"]
    /\ result' = Returned(list_runs(run_dir))
    /\ UNCHANGED <<heap, pc, records, cell, run_dir, clock, saved, session_state>>

\* loaded = load_run(path), for a path an earlier save_run returned
CallLoadRun ==
    /\ \E k \in DOMAIN saved :
        /\ call' = [op |-> "load_run", path |-> saved[k].path, save |-> k]
        /\ result' = load_run(run_dir, saved[k].path)
    /\ UNCHANGED <<heap, pc, records, cell, run_dir, clock, saved, session_state>>

NextStore == Tick \/ CallSaveRun \/ CallListRuns \/ CallLoadRun

SpecStore == InitStore /\ [][NextStore]_vars

---------------------------------------------------------------------------
(* Properties of the run store                                             *)

ListRunsCalled == call.op = "list_runs"

\* The paths save_run returned, most recent call first
SavedPathsNewestFirst == [i \in DOMAIN saved |-> saved[Len(saved) + 1 - i].path]

\* The last save_run call that returned a path
LastSaveOf(path) == CHOOSE k \in DOMAIN saved :
                        saved[k].path = path /\ \A m \in DOMAIN saved : saved[m].path = path => m <= k

\* C15 as stated: after any sequence of save_run calls the directory holds one
\* run file per call, list_runs returns these files most recent first, and
\* list_runs on a directory that does not exist returns the empty list.
C15_OneFilePerRun ==
    /\ Cardinality(Glob(run_dir)) = Len(saved)
    /\ ListRunsCalled =>
          /\ result.status = "ok"
          /\ result.value = SavedPathsNewestFirst
          /\ ~run_dir.exists => result.value = <<>>

\* C15 without the count: list_runs returns every path save_run returned, each
\* once, a path whose last save is more recent before the others, and the empty
\* list on a directory that does not exist.
C15_ListingNewestFirst ==
    ListRunsCalled =>
        /\ result.status = "ok"
        /\ ToSet(result.value) = {saved[k].path : k \in DOMAIN saved}
        /\ \A a, b \in DOMAIN result.value :
              a < b => LastSaveOf(result.value[a]) > LastSaveOf(result.value[b])
        /\ ~run_dir.exists => result.value = <<>>

\* C15 witness: two runs saved in different seconds across the turn of a minute
\* are listed, the later first.
C15_Witness ==
    /\ ListRunsCalled
    /\ Len(saved) = 2
    /\ saved[1].path = RunFilename(59) /\ saved[2].path = RunFilename(60)
    /\ result.value = <<RunFilename(60), RunFilename(59)>>

\* C15 witness of the directory that does not exist
C15_WitnessNoDirectory ==
    ListRunsCalled /\ ~run_dir.exists /\ result.value = <<>>

\* The payloads that are JSON values: strings, integers, lists and dicts of these
RECURSIVE IsJsonValue(_)
IsJsonValue(x) ==
    CASE x.t \in {"str", "int", "float"} -> TRUE
      [] x.t = "list" -> \A i \in DOMAIN x.v : IsJsonValue(x.v[i])
      [] x.t = "dict" -> \A i \in DOMAIN x.v : IsJsonValue(x.v[i][2])
      [] OTHER -> FALSE

RoundTripHolds(k) ==
    /\ load_run(run_dir, saved[k].path) = Returned(saved[k].payload)
    /\ saved[k].path \in ToSet(list_runs(run_dir))
    /\ (call.op = "load_run" /\ call.save = k) => result = Returned(saved[k].payload)

\* C16 as stated: at any point of a sequence of save_run calls, for every earlier
\* save_run of a JSON payload, load_run of the path it returned gives a value
\* equal to the payload, and list_runs holds the path.
C16_RoundTrip ==
    \A k \in DOMAIN saved : IsJsonValue(saved[k].payload) => RoundTripHolds(k)

\* C16 for the most recent save_run of each path only
C16_RoundTripOfLatest ==
    \A k \in DOMAIN saved :
        (IsJsonValue(saved[k].payload) /\ k = LastSaveOf(saved[k].path)) => RoundTripHolds(k)

\* C16 witness: after a later save in another second, load_run of the first
\* path has returned the first payload, which holds a list.
C16_Witness ==
    /\ call.op = "load_run" /\ call.save = 1
    /\ Len(saved) = 2 /\ saved[1].path # saved[2].path
    /\ saved[1].payload # saved[2].payload
    /\ \E i \in DOMAIN saved[1].payload.v : saved[1].payload.v[i][2].t = "list"
    /\ result = Returned(saved[1].payload)

\* C16 witness of a payload that is not a JSON value: the tuple came back as a list
C16_WitnessTuple ==
    /\ call.op = "load_run"
    /\ ~IsJsonValue(saved[call.save].payload)
    /\ result.status = "ok"
    /\ result.value # saved[call.save].payload

---------------------------------------------------------------------------
(* Run Simulation up to the engine call, app.py lines 130-144: SpecRun     *)

\* Activity rows: positive, zero, negative and null activities
RunActivityRows ==
    { ActivityRow("residential", Z(100)), ActivityRow("residential", Z(0)),
      ActivityRow("energy", Z(-3)), ActivityRow("energy", NaN) }

\* Factor rows: the tests' triple, a negative factor, a null factor, zero factors
RunFactorRows ==
    { FactorRow("residential", Z(1), Q(1, 10), Q(1, 100)),
      FactorRow("residential", Z(-1), Z(0), Q(1, 2)),
      FactorRow("energy", Z(2), NaN, Z(0)),
      FactorRow("energy", Z(1), Z(0), Z(0)) }

RunActivityTables ==
    {DataFrame(REQUIRED_ACTIVITY_COLUMNS, r) : r \in SeqsUpTo(RunActivityRows, MaxRows)}
        \cup {DataFrame({"sector"}, << [sector |-> "energy"] >>)}
RunFactorTables ==
    {DataFrame(REQUIRED_FACTOR_COLUMNS, r) : r \in SeqsUpTo(RunFactorRows, MaxRows)}
        \cup {DataFrame({"sector", "co2_factor"}, << [sector |-> "transport", co2_factor |-> Z(1)] >>)}

InitRun ==
    /\ heap \in {<<a, f>> : a \in RunActivityTables, f \in RunFactorTables}
    /\ pc = "ready"
    /\ call = NoCall
    /\ result = NoResult
    /\ records = <<>>
    /\ cell = 0
    /\ run_dir = NoDirectory
    /\ clock = 0
    /\ saved = <<>>
    /\ session_state = <<>>

\* Lines 135-142: both tables are validated; any error ends the run (st.stop())
RunValidate ==
    /\ pc = "ready"
    /\ LET a == validate_activity_data(heap[1])
           f == validate_factor_data(heap[2])
       IN  /\ call' = [op |-> "validate"]
           /\ result' = Returned([activity_errors |-> a.errors, activity_warnings |-> a.warnings,
                                   factor_errors |-> f.errors, factor_warnings |-> f.warnings])
           /\ pc' = IF a.errors # <<>> \/ f.errors # <<>> THEN "stopped" ELSE "validated"
    /\ UNCHANGED <<heap, records, cell>>
    /\ UNCHANGED storeVars
    /\ UNCHANGED session_state

\* Line 144: base_sector_results = compute_sector_emissions(activity_df, factor_df)
RunCompute ==
    /\ pc = "validated"
    /\ call' = [op |-> "compute_sector_emissions", gwp |-> NoGwp, validation |-> result.value]
    /\ result' = compute_sector_emissions(heap[1], heap[2], NoGwp)
    /\ pc' = "computed"
    /\ UNCHANGED <<heap, records, cell>>
    /\ UNCHANGED storeVars
    /\ UNCHANGED session_state

NextRun == RunValidate \/ RunCompute

SpecRun == InitRun /\ [][NextRun]_vars

---------------------------------------------------------------------------
(* Properties of the pre-flight validation                                 *)

ValidateCalled == call.op = "validate"

HasFinding(list, text) == \E k \in DOMAIN list : list[k].text = text
HasColumnFinding(list, text, col) ==
    \E k \in DOMAIN list : list[k].text = text /\ col \in list[k].columns

ActivityColumnsPresent == REQUIRED_ACTIVITY_COLUMNS \subseteq heap[1].columns
FactorColumnsPresent == REQUIRED_FACTOR_COLUMNS \subseteq heap[2].columns

C17_WitnessStopped ==
    /\ ValidateCalled /\ pc = "stopped"
    /\ heap[1].rows = <<ActivityRow("energy", Z(-3))>>
    /\ Len(result.value.activity_errors) = 1
    /\ result.value.activity_warnings = <<>>
    /\ result.value.factor_errors = <<>>

\* C17 witness of a null and a negative factor and a missing column
C17_WitnessFactors ==
    /\ ValidateCalled /\ pc = "stopped"
    /\ ~ActivityColumnsPresent
    /\ HasColumnFinding(result.value.factor_errors, "Column has null values", "ch4_factor")
    /\ HasColumnFinding(result.value.factor_errors, "Column has negative factors", "co2_factor")

---------------------------------------------------------------------------
(* Properties of the growth compounding and of mitigation                  *)

ForecastRunning == call.op = "forecast_scenarios" /\ pc \in {"loop", "done"}

\* (1 + g)^t, the identity at t = 0
C18_Compound(g, t) == IF t = 0 THEN Z(1) ELSE RMul(RAdd(Z(1), g), RPow(RAdd(Z(1), g), t - 1))

\* The growth scale the claim gives a sector in year start_year + t
C18_GrowthScale(s, t) ==
    CASE s \in {"residential", "transport", "waste"} -> C18_Compound(call.population_growth, t)
      [] s \in {"industry", "energy"} ->
            RDiv(RAdd(C18_Compound(call.population_growth, t), C18_Compound(call.gdp_growth, t)), Z(2))
      [] OTHER -> Z(1)

C18_UrbanModifier(s) ==
    IF s \in Keys(call.urban_modifiers)
    THEN call.urban_modifiers[CHOOSE k \in DOMAIN call.urban_modifiers :
                                  call.urban_modifiers[k][1] = s][2]
    ELSE Z(1)

\* co2e of one activity row under one factor row: the base activity scaled by
\* growth, then by the urban modifier, then by the scenario
C18_RowCo2e(arow, frow, scenario, t) ==
    LET scn == normalized(scenario)
        activity == RMul(RMul(RMul(arow.activity, C18_GrowthScale(arow.sector, t)),
                              C18_UrbanModifier(arow.sector)),
                         C7_ActivityMultiplier(arow.sector, scn))
        share == IF frow.sector = "energy" THEN RSub(Z(1), scn.renewable_share) ELSE Z(1)
    IN  RAdd(RMul(activity, RMul(frow.co2_factor, share)),
             RAdd(RMul(RMul(activity, RMul(frow.ch4_factor, share)), Z(28)),
                  RMul(RMul(activity, RMul(frow.n2o_factor, share)), Z(265))))

C18_Total(scenario, t) ==
    LET arows == call.activity_df.rows
        frows == call.factor_df.rows
        ofRow(i) == C3_Sum([j \in DOMAIN frows |->
                        IF frows[j].sector = arows[i].sector
                        THEN C18_RowCo2e(arows[i], frows[j], scenario, t) ELSE Z(0)])
    IN  C3_Sum([i \in DOMAIN arows |-> ofRow(i)])

\* C18: the k-th record of the loop is that of scenario (k-1) div years and year
\* start_year + t, t = (k-1) mod years, with population =
\* population_base*(1+population_growth)^t, gdp = population *
\* gdp_per_capita_base*(1+gdp_growth)^t and total_co2e the engine total of the
\* base activity scaled by growth (residential, transport, waste by the
\* population scale; industry, energy by the mean of the two scales; identity
\* at t = 0), then by the urban modifiers, then by the scenario; every returned
\* row carries the values of a record.
C18_GrowthCompounding ==
    ForecastRunning =>
        LET years == call.end_year - call.start_year + 1
        IN  /\ \A k \in DOMAIN records :
                  LET scenario == call.scenarios[((k - 1) \div years) + 1]
                      t == (k - 1) % years
                      population == RMul(call.population_base, C18_Compound(call.population_growth, t))
                  IN  /\ records[k].scenario = scenario.name
                      /\ records[k].year = call.start_year + t
                      /\ records[k].population = population
                      /\ records[k].gdp =
                            RMul(population, RMul(call.gdp_per_capita_base,
                                                  C18_Compound(call.gdp_growth, t)))
                      /\ records[k].total_co2e = C18_Total(scenario, t)
            /\ ForecastReturned =>
                  \A m \in DOMAIN result.value :
                      \E k \in DOMAIN records :
                          \A c \in {"scenario", "year", "population", "gdp", "total_co2e"} :
                              result.value[m][c] = records[k][c]

\* C18 witness: the second year of Mitigation with growth 0.5 and 1.0 and urban
\* modifiers on the panel's five sectors; population 1500, gdp 1500 * 200.
C18_Witness ==
    /\ ForecastReturned
    /\ Len(call.activity_df.rows) = 5
    /\ call.population_growth = Q(1, 2) /\ call.gdp_growth = Z(1)
    /\ call.urban_modifiers # <<>>
    /\ \E m \in DOMAIN result.value :
          /\ result.value[m].scenario = Mitigation_
          /\ result.value[m].year = call.start_year + 1
          /\ result.value[m].population = Z(1500)
          /\ result.value[m].gdp = Z(300000)
          /\ RGt(result.value[m].total_co2e, Z(0))
          /\ result.value[m].total_co2e = C18_Total(call.scenarios[Len(call.scenarios)], 1)

---------------------------------------------------------------------------
(* Properties of the engine on out-of-range values                         *)

\* Some activity row is joined to a factor row with a null factor
NullFactorJoined ==
    \E p \in MatchedPairs : \E c \in FACTOR_COLUMNS : IsNaN(heap[2].rows[p[2]][c])

\* C19 as stated: the engine raises only for a missing required column or an
\* activity sector with no factor row; with the columns present and a factor row
\* for every activity sector it returns, whatever the values: negative
\* activities, negative factors, null factors.
C19_RaisesOnlyForMissing ==
    (ComputeCalled /\ WellFormedTables /\ UnmatchedSectors = {}) => result.status = "ok"

\* C19 without null factors: with the columns present, a factor row for every
\* activity sector and no null factor joined, the engine returns, negative
\* activities and negative factors included.
C19_NegativeValuesDoNotRaise ==
    (ComputeCalled /\ WellFormedTables /\ UnmatchedSectors = {} /\ ~NullFactorJoined)
        => result.status = "ok"

\* C19 witness: a call on a negative activity and a negative factor has returned
C19_Witness ==
    /\ ComputeCalled /\ WellFormedTables /\ UnmatchedSectors = {}
    /\ \E p \in MatchedPairs :
          /\ RLt(heap[1].rows[p[1]].activity, Z(0))
          /\ RLt(heap[2].rows[p[2]].co2_factor, Z(0))
    /\ result.status = "ok"
    /\ result.value # <<>>

\* The inputs the claim is about: non-negative activities, factors and urban
\* modifiers, growth rates above -1
C20_InputsInRange ==
    /\ \A i \in DOMAIN call.activity_df.rows : RLe(Z(0), call.activity_df.rows[i].activity)
    /\ \A j \in DOMAIN call.factor_df.rows :
          \A c \in FACTOR_COLUMNS : RLe(Z(0), call.factor_df.rows[j][c])
    /\ \A k \in DOMAIN call.urban_modifiers : RLe(Z(0), call.urban_modifiers[k][2])
    /\ RLt(Z(-1), call.population_growth) /\ RLt(Z(-1), call.gdp_growth)

\* Every scenario named baseline has all five intensities 0
C20_BaselineIsZero ==
    \A k \in DOMAIN call.scenarios :
        IsBaselineName(call.scenarios[k].name) =>
            \A f \in Intensities : call.scenarios[k][f] = Z(0)

\* C20: with inputs in range and a baseline of zero intensities, every returned
\* row has total_co2e >= 0, total_co2e at most the total of the baseline rows of
\* its year, and change_vs_baseline_pct <= 0 where it is not NaN, whatever the
\* intensities of the other scenarios.
C20_MitigationNeverRaises ==
    (ForecastReturned /\ C20_InputsInRange /\ C20_BaselineIsZero) =>
        \A m \in DOMAIN result.value :
            /\ RLe(Z(0), result.value[m].total_co2e)
            /\ \A b \in BaselineRowsOf(result.value[m].year) :
                  RLe(result.value[m].total_co2e, result.value[b].total_co2e)
            /\ ~IsNaN(result.value[m].change_vs_baseline_pct) =>
                  RLe(result.value[m].change_vs_baseline_pct, Z(0))

\* C20 witness: beside a zero Baseline, the scenario with intensities -0.5, 1.5
\* and NaN on the panel's table under shrinking population has a total between
\* 0 and the baseline's.
C20_Witness ==
    /\ ForecastReturned /\ C20_InputsInRange /\ C20_BaselineIsZero
    /\ Len(call.activity_df.rows) = 5
    /\ call.population_growth = Q(-1, 2)
    /\ \E m \in DOMAIN result.value : \E b \in BaselineRowsOf(call.end_year) :
          /\ result.value[m].scenario = mit_
          /\ result.value[m].year = call.end_year
          /\ call.end_year = call.start_year + 1
          /\ RLt(Z(0), result.value[m].total_co2e)
          /\ RLt(result.value[m].total_co2e, result.value[b].total_co2e)
          /\ RLt(result.value[m].change_vs_baseline_pct, Z(0))

---------------------------------------------------------------------------
(* modules/scenario.py: forecast_scenarios as one call                     *)

\* The one element of a set of one element
Only(S) == CHOOSE x \in S : TRUE

\* The loop of lines 75-108 from cell k on: the records, or the exception that
\* ends the call
RECURSIVE ForecastRecords(_, _, _, _)
ForecastRecords(h, a, k, recs) ==
    LET years == year_range(a.start_year, a.end_year).years
        n == Len(years)
    IN  IF k = Len(a.scenarios) * n THEN Returned(recs)
        ELSE Only({ IF c.outcome.status = "raise" THEN c.outcome
                    ELSE ForecastRecords(CallerFrames(c.heap), a, k + 1,
                                         Append(recs, c.outcome.value)) :
                    c \in {ForecastCell(h, 1, 2, a, a.scenarios[(k \div n) + 1],
                                        years[(k % n) + 1])} })

\* forecast_scenarios(base_activity_df, factor_df, ...) over the frames h[1],
\* h[2]; the arguments are evaluated once, as at a call
forecast_scenarios(h, a) ==
    Only({ IF args.scenarios # <<>> /\ ~year_range(args.start_year, args.end_year).ok
           THEN Raised("ValueError", "end_year must be >= start_year", {}, <<>>)
           ELSE Only({ IF r.status = "raise" THEN r
                       ELSE IF r.value = <<>> THEN Raised("KeyError", "scenario", {}, <<>>)
                       ELSE Returned(ZeroBaselineRows(MergeBaseline(r.value))) :
                       r \in {ForecastRecords(frames, args, 0, <<>>)} }) :
           frames \in {h}, args \in {a} })

---------------------------------------------------------------------------
(* modules/report_export.py                                                *)

\* modules/visualization.py: a figure is written as the chart drawn, the column
\* on its y axis and the frame it plots
Figure(chart, y, data) == [chart |-> chart, y |-> y, data |-> data]

\* app.py lines 215-226: the five figures of the results on screen
export_charts(result_sector_df, result_forecast_df) ==
    << <<"sector_emissions", Figure("bar", "co2e", result_sector_df)>>,
       <<"scenario_forecast", Figure("line", "total_co2e", result_forecast_df)>>,
       <<"per_capita_intensity", Figure("line", "per_capita_co2e", result_forecast_df)>>,
       <<"per_gdp_intensity", Figure("line", "per_gdp_co2e", result_forecast_df)>>,
       <<"baseline_comparison", Figure("bar", "change_vs_baseline_pct", result_forecast_df)>> >>

\* charts=None
NoCharts == <<>>

\* _figure_to_png_bytes: the image of the figure, or None when to_image raises
\* (no image export engine installed)
figure_to_png_bytes(figure, to_image_works) ==
    IF to_image_works THEN [available |-> TRUE, png |-> figure] ELSE [available |-> FALSE]

\* The entries of the charts part of a report: label and image, or label and
\* the line that the image is unavailable
ChartEntries(charts, to_image_works) ==
    [i \in DOMAIN charts |->
        [name |-> charts[i][1],
         image |-> figure_to_png_bytes(charts[i][2], to_image_works)]]

\* export_excel_report: the workbook, by sheet
export_excel_report(base_activity, factors, sector_results, forecast, charts, to_image_works) ==
    [BaseActivity |-> base_activity,
     EmissionFactors |-> factors,
     BaseResults |-> sector_results,
     ScenarioForecast |-> forecast,
     Charts |-> ChartEntries(charts, to_image_works)]

\* Long division: `places` more digits of r/d after the digits in acc, and the
\* remainder left
RECURSIVE LongDiv(_, _, _, _)
LongDiv(r, d, places, acc) ==
    IF places = 0 THEN <<acc, r>>
    ELSE LongDiv((r * 10) % d, d, places - 1, acc * 10 + ((r * 10) \div d))

RECURSIVE Pow10(_)
Pow10(k) == IF k = 0 THEN 1 ELSE 10 * Pow10(k - 1)

\* format(x, ".<places>f"): the decimal numeral nearest to x, a tie going to
\* the even last digit
Fixed(x, places) ==
    IF IsNaN(x) THEN [text |-> "nan"]
    ELSE IF ~IsFinite(x) THEN [text |-> IF x[1] > 0 THEN "inf" ELSE "-inf"]
    ELSE LET n == Abs(x[1])
             d == x[2]
             q == LongDiv(n % d, d, places, 0)
             up == 2 * q[2] > d \/ (2 * q[2] = d /\ q[1] % 2 = 1)
             frac == IF up THEN q[1] + 1 ELSE q[1]
             carry == frac = Pow10(places)
         IN  [negative |-> x[1] < 0,
              whole |-> IF carry THEN (n \div d) + 1 ELSE n \div d,
              fraction |-> IF carry THEN 0 ELSE frac,
              places |-> places]

\* forecast.sort_values("year"): rows in year order, rows of one year in
\* their order in the frame (frames of fewer than 16 rows sort stably)
RECURSIVE SortByYear(_)
SortByYear(rws) ==
    IF rws = <<>> THEN <<>>
    ELSE LET low == CHOOSE y \in {rws[i].year : i \in DOMAIN rws} :
                        \A i \in DOMAIN rws : y <= rws[i].year
         IN  SelectSeq(rws, LAMBDA r : r.year = low)
                \o SortByYear(SelectSeq(rws, LAMBDA r : r.year # low))

\* .groupby("scenario").tail(1): the last row of every scenario, in row order
LastPerScenario(rws) ==
    LET last(i) == \A j \in DOMAIN rws : j > i => rws[j].scenario # rws[i].scenario
        F[i \in 0..Len(rws)] ==
            IF i = 0 THEN <<>> ELSE IF last(i) THEN Append(F[i - 1], rws[i]) ELSE F[i - 1]
    IN  F[Len(rws)]

\* export_pdf_report: the strings drawn, in order
export_pdf_report(city_name, summary, sector_results, forecast, charts, to_image_works) ==
    LET latest == LastPerScenario(SortByYear(forecast))
    IN  [title |-> city_name,
         total_co2e |-> Fixed(summary.total_co2e, 2),
         per_capita_co2e |-> Fixed(summary.per_capita_co2e, 6),
         per_gdp_co2e |-> Fixed(summary.per_gdp_co2e, 8),
         sector_emissions |->
            [i \in DOMAIN sector_results |->
                [sector |-> sector_results[i].sector,
                 co2e |-> Fixed(sector_results[i].co2e, 2)]],
         scenario_highlights |->
            [i \in DOMAIN latest |->
                [year |-> latest[i].year, scenario |-> latest[i].scenario,
                 total_co2e |-> Fixed(latest[i].total_co2e, 2),
                 change_vs_baseline_pct |-> Fixed(latest[i].change_vs_baseline_pct, 2)]],
         charts |-> ChartEntries(charts, to_image_works)]

---------------------------------------------------------------------------
(* app.py: one browser session, SpecSession                                *)

\* st.session_state before the first script run. The keys modelled are the
\* three the script writes itself.
NoSessionState == [key \in {} |-> <<>>]

REPORT_KEYS == {"excel_report_bytes", "pdf_report_bytes"}

\* del st.session_state[key]
Del(state, keys) == [key \in DOMAIN state \ keys |-> state[key]]

\* st.session_state[key] = value
Set(state, key, value) == [k \in DOMAIN state \cup {key} |-> IF k = key THEN value ELSE state[k]]

\* The cache cleared of the Excel report only
clear_report_cache_excel_only(state) == Del(state, {"excel_report_bytes"})

\* _clear_report_cache()
clear_report_cache(state) == Del(state, REPORT_KEYS)

Meta(city_name, population, population_growth, gdp_per_capita, gdp_growth) ==
    [city_name |-> city_name, population |-> population,
     population_growth |-> population_growth, gdp_per_capita |-> gdp_per_capita,
     gdp_growth |-> gdp_growth]

SampleCity == Str(<<"S", "a", "m", "p", "l", "e", " ", "C", "i", "t", "y">>)
UploadedCity == Str(<<"U", "p", "l", "o", "a", "d", "e", "d", " ", "C", "i", "t", "y">>)

\* What the widgets hold when Run Simulation is pressed. activity_df is None
\* (has_activity FALSE) in Upload mode with no activity file.
Inputs(mode, has_activity, activity_df, factor_df, meta, end_year, sliders, urban) ==
    [input_mode |-> mode, has_activity |-> has_activity, activity_df |-> activity_df,
     factor_df |-> factor_df, meta |-> meta, start_year |-> StartYear, end_year |-> end_year,
     energy_efficiency |-> sliders[1], renewable_share |-> sliders[2],
     modal_shift |-> sliders[3], industry_efficiency |-> sliders[4],
     waste_reduction |-> sliders[5],
     density |-> urban[1], compactness |-> urban[2], transit_access |-> urban[3]]

\* The sliders' defaults (20, 30, 15, 10, 15 per cent) and all sliders at zero
DefaultSliders == <<Q(1, 5), Q(3, 10), Q(3, 20), Q(1, 10), Q(3, 20)>>
ZeroSliders == <<Z(0), Z(0), Z(0), Z(0), Z(0)>>

\* Density, compactness and transit access: the densest, most compact city,
\* and the least dense with both indices at zero
CompactCity == <<Z(100000), Z(1), Z(1)>>
SparseCity == <<Z(100), Z(0), Z(0)>>

DefaultFactors == DataFrame(REQUIRED_FACTOR_COLUMNS, FullFactors)

\* The manual panel with its defaults and with the sliders at zero over the
\* longest horizon; an upload of two sectors; and three runs that end early:
\* no activity file, a negative activity, and factors without the energy sector
SessionInputs ==
    { Inputs("Manual", TRUE, DataFrame(REQUIRED_ACTIVITY_COLUMNS, ForecastActivityRows),
             DefaultFactors, Meta(SampleCity, Z(1000), Q(1, 2), Z(100), Z(1)),
             StartYear, DefaultSliders, CompactCity),
      Inputs("Manual", TRUE, DataFrame(REQUIRED_ACTIVITY_COLUMNS, ForecastActivityRows),
             DefaultFactors, Meta(SampleCity, Z(1000), Q(1, 2), Z(100), Z(1)),
             StartYear + MaxYears - 1, ZeroSliders, CompactCity),
      Inputs("Upload", TRUE,
             DataFrame(REQUIRED_ACTIVITY_COLUMNS,
                       <<ForecastActivityRows[1], ForecastActivityRows[5]>>),
             DefaultFactors, Meta(UploadedCity, Z(0), Z(0), Z(100), Z(0)),
             StartYear, DefaultSliders, SparseCity),
      Inputs("Upload", FALSE, DataFrame({}, <<>>),
             DefaultFactors, Meta(UploadedCity, Z(1000), Z(0), Z(100), Z(0)),
             StartYear, DefaultSliders, CompactCity),
      Inputs("Upload", TRUE,
             DataFrame(REQUIRED_ACTIVITY_COLUMNS, << ActivityRow("energy", Z(-3)) >>),
             DefaultFactors, Meta(UploadedCity, Z(1000), Z(0), Z(100), Z(0)),
             StartYear, DefaultSliders, CompactCity),
      Inputs("Upload", TRUE, DataFrame(REQUIRED_ACTIVITY_COLUMNS, ForecastActivityRows),
             DataFrame(REQUIRED_FACTOR_COLUMNS, SubSeq(FullFactors, 1, 4)),
             Meta(UploadedCity, Z(1000), Z(0), Z(100), Z(0)),
             StartYear, DefaultSliders, CompactCity) }

\* The dict calculate_urban_modifiers returns, as its items in order
Items(modifiers) ==
    << <<"transport", modifiers.transport>>, <<"residential", modifiers.residential>>,
       <<"energy", modifiers.energy>> >>

\* st.stop(): the script run ends, with the errors shown
Stopped(errors) ==
    [status |-> "stop", exc |-> "", what |-> "", columns |-> {}, sectors |-> <<>>,
     value |-> errors]

\* Lines 131-188: the dict stored under "simulation_results", or how the run
\* ends before it is stored
simulation_results(inputs) ==
    LET activity == validate_activity_data(inputs.activity_df)
        factor == validate_factor_data(inputs.factor_df)
        base_sector_results == compute_sector_emissions(inputs.activity_df, inputs.factor_df, NoGwp)
        gdp_total == RMul(inputs.meta.population, inputs.meta.gdp_per_capita)
        base_summary ==
            aggregate_emissions(base_sector_results.value, inputs.meta.population, gdp_total)
        params == UrbanFormParameters(inputs.density, inputs.compactness, inputs.transit_access)
        urban_modifiers == Items(calculate_urban_modifiers(params))
        scenarios ==
            << ZeroScenario(Baseline_),
               Scenario(Mitigation_, inputs.energy_efficiency, inputs.renewable_share, inputs.modal_shift,
                        inputs.industry_efficiency, inputs.waste_reduction) >>
        forecast_df ==
            forecast_scenarios(<<inputs.activity_df, inputs.factor_df>>,
                [population_base |-> inputs.meta.population,
                 population_growth |-> inputs.meta.population_growth,
                 gdp_per_capita_base |-> inputs.meta.gdp_per_capita,
                 gdp_growth |-> inputs.meta.gdp_growth,
                 start_year |-> inputs.start_year, end_year |-> inputs.end_year,
                 scenarios |-> scenarios, urban_modifiers |-> urban_modifiers])
    IN  IF ~inputs.has_activity
        THEN Stopped(<<"Please provide activity data via manual entry or upload.">>)
        ELSE IF activity.errors # <<>> \/ factor.errors # <<>>
        THEN Stopped(activity.errors \o factor.errors)
        ELSE IF base_sector_results.status = "raise" THEN base_sector_results
        ELSE IF forecast_df.status = "raise" THEN forecast_df
        ELSE Returned([meta |-> inputs.meta,
                       activity_df |-> inputs.activity_df,
                       factor_df |-> inputs.factor_df,
                       base_sector_results |-> base_sector_results.value,
                       base_summary |-> base_summary,
                       forecast_df |-> forecast_df.value,
                       urban_modifiers |-> urban_modifiers])

\* DataFrame.to_dict(orient="records"): one dict per row, its columns in order
to_dict_records(rws, cols) ==
    PyList([i \in DOMAIN rws |->
        PyDict([c \in DOMAIN cols |->
            <<cols[c],
              IF cols[c] \in {"sector", "scenario"} THEN PyStr(rws[i][cols[c]])
              ELSE IF cols[c] = "year" THEN PyInt(rws[i][cols[c]])
              ELSE PyFloat(rws[i][cols[c]])>>])])

SECTOR_COLUMNS == <<"sector", "activity", "co2", "ch4", "n2o", "co2e">>
FORECAST_COLUMNS ==
    <<"year", "scenario", "total_co2e", "per_capita_co2e", "per_gdp_co2e", "population",
      "gdp", "baseline_total", "change_vs_baseline_pct">>

\* A dict of floats
FloatDict(items) == PyDict([i \in DOMAIN items |-> <<items[i][1], PyFloat(items[i][2])>>])

\* Lines 191-197. The keys of the payload, which no code takes apart, are
\* written as whole strings.
run_payload(results) ==
    PyDict(<<
        <<"meta",
          PyDict(<< <<"city_name", PyStr(results.meta.city_name)>>,
                    <<"population", PyFloat(results.meta.population)>>,
                    <<"population_growth", PyFloat(results.meta.population_growth)>>,
                    <<"gdp_per_capita", PyFloat(results.meta.gdp_per_capita)>>,
                    <<"gdp_growth", PyFloat(results.meta.gdp_growth)>> >>)>>,
        <<"urban_modifiers", FloatDict(results.urban_modifiers)>>,
        <<"base_summary",
          FloatDict(<< <<"total_co2e", results.base_summary.total_co2e>>,
                       <<"per_capita_co2e", results.base_summary.per_capita_co2e>>,
                       <<"per_gdp_co2e", results.base_summary.per_gdp_co2e>> >>)>>,
        <<"base_sector_results", to_dict_records(results.base_sector_results, SECTOR_COLUMNS)>>,
        <<"forecast", to_dict_records(results.forecast_df, FORECAST_COLUMNS)>> >>)

InitSession ==
    /\ heap = <<>>
    /\ pc = "ready"
    /\ call = NoCall
    /\ result = NoResult
    /\ records = <<>>
    /\ cell = 0
    /\ run_dir = NoDirectory
    /\ clock = 0
    /\ saved = <<>>
    /\ session_state = NoSessionState

\* The script run in which Run Simulation is pressed, lines 130-199: a run that
\* st.stop() or an exception ends leaves the session state as it was
RunSimulation ==
    /\ Len(saved) < MaxSaves
    /\ \E inputs \in SessionInputs :
      \E run \in {simulation_results(inputs)} :
        LET stored == clear_report_cache(Set(session_state, "simulation_results", run.value))
            saving == save_run(run_dir, run_payload(run.value), clock)
        IN  /\ call' = [op |-> "run_simulation", input |-> inputs, held |-> DOMAIN session_state]
            /\ result' = run
            /\ IF run.status = "ok"
               THEN /\ session_state' = stored
                    /\ run_dir' = saving.dir
                    /\ saved' = Append(saved, [path |-> saving.path,
                                               payload |-> run_payload(run.value)])
               ELSE UNCHANGED <<session_state, run_dir, saved>>
    /\ UNCHANGED <<heap, pc, records, cell, clock>>

\* charts_payload = export_charts if include_charts else None
charts_payload(results, include_charts) ==
    IF include_charts
    THEN export_charts(results.base_sector_results, results.forecast_df)
    ELSE NoCharts

\* The script run in which Prepare Excel Report is pressed, lines 246-254; the
\* button is drawn only when there are results
PrepareExcelReport ==
    /\ "simulation_results" \in DOMAIN session_state
    /\ \E include_charts \in BOOLEAN, to_image_works \in BOOLEAN :
        LET results == session_state["simulation_results"]
            bytes == export_excel_report(results.activity_df, results.factor_df,
                                         results.base_sector_results, results.forecast_df,
                                         charts_payload(results, include_charts),
                                         to_image_works)
        IN  /\ call' = [op |-> "prepare_excel_report", include_charts |-> include_charts,
                        held |-> DOMAIN session_state]
            /\ result' = Returned(bytes)
            /\ session_state' = Set(session_state, "excel_report_bytes", bytes)
    /\ UNCHANGED <<heap, pc, records, cell>>
    /\ UNCHANGED storeVars

\* The script run in which Prepare PDF Report is pressed, lines 265-273
PreparePdfReport ==
    /\ "simulation_results" \in DOMAIN session_state
    /\ \E include_charts \in BOOLEAN, to_image_works \in BOOLEAN :
        LET results == session_state["simulation_results"]
            bytes == export_pdf_report(results.meta.city_name, results.base_summary,
                                       results.base_sector_results, results.forecast_df,
                                       charts_payload(results, include_charts),
                                       to_image_works)
        IN  /\ call' = [op |-> "prepare_pdf_report", include_charts |-> include_charts,
                        held |-> DOMAIN session_state]
            /\ result' = Returned(bytes)
            /\ session_state' = Set(session_state, "pdf_report_bytes", bytes)
    /\ UNCHANGED <<heap, pc, records, cell>>
    /\ UNCHANGED storeVars

\* The clock stands still in a session: nothing of the session state is read
\* from it, and SpecStore has the store over time
NextSession == RunSimulation \/ PrepareExcelReport \/ PreparePdfReport

SpecSession == InitSession /\ [][NextSession]_vars

---------------------------------------------------------------------------
(* Properties of the session                                               *)

SimulationRan == call.op = "run_simulation" /\ result.status = "ok"

\* The report under `key` is what the export of the results now held gives,
\* with or without charts
GeneratedFromHeldResults(key) ==
    LET results == session_state["simulation_results"]
    IN  \E include_charts \in BOOLEAN, to_image_works \in BOOLEAN :
            session_state[key] =
                IF key = "excel_report_bytes"
                THEN export_excel_report(results.activity_df, results.factor_df,
                                         results.base_sector_results, results.forecast_df,
                                         charts_payload(results, include_charts),
                                         to_image_works)
                ELSE export_pdf_report(results.meta.city_name, results.base_summary,
                                       results.base_sector_results, results.forecast_df,
                                       charts_payload(results, include_charts),
                                       to_image_works)

\* C21: after any sequence of Run Simulation, Prepare Excel Report and Prepare
\* PDF Report, a report held in the session state was generated from the
\* simulation_results held next to it; and a successful Run Simulation stores
\* its results and leaves no report in the session state.
C21_ReportsAreOfHeldResults ==
    /\ \A key \in REPORT_KEYS \cap DOMAIN session_state :
        /\ "simulation_results" \in DOMAIN session_state
        /\ GeneratedFromHeldResults(key)
    /\ SimulationRan =>
        /\ DOMAIN session_state = {"simulation_results"}
        /\ session_state["simulation_results"] = result.value

\* A second simulation, of other inputs, was run while both reports of the
\* first were held, and neither report is held after it
C21_Witness ==
    /\ SimulationRan
    /\ REPORT_KEYS \subseteq call.held
    /\ Len(saved) = 2
    /\ saved[1].payload # saved[2].payload
    /\ REPORT_KEYS \cap DOMAIN session_state = {}

\* A report prepared from the results of the second simulation
C21_WitnessPreparedAgain ==
    /\ call.op = "prepare_pdf_report"
    /\ Len(saved) = 2
    /\ saved[1].payload # saved[2].payload
    /\ REPORT_KEYS \subseteq DOMAIN session_state

=============================================================================
